---- MODULE Spec2Model ----
(***************************************************************************)
(* Retrieval-and-orchestration engine of the AI assisted debugger:         *)
(*   - run_syscros_swarm (backend/app/agents/swarm.py)                     *)
(*   - search_similar_jira / find_similar_jira (jira_tools.py, search.py)  *)
(*   - generate_embedding (services/embeddings.py)                         *)
(*   - llm_tools.subagent                                                  *)
(*   - the /search and /jira/analyze handlers (backend/app/main.py)        *)
(* Scores are cosine similarities in thousandths (0.62 is 620).            *)
(***************************************************************************)
EXTENDS Integers, Sequences, FiniteSets, TLC

\* ------------------------------------------------------------------ bounds
NumIssues == 11          \* rows of jira_issues in the store of a swarm run
MaxCorpus == 3           \* rows of jira_embeddings given to find_similar_jira
MaxLimit == 2            \* largest limit given to find_similar_jira
MaxTicks == 2            \* largest LLM_NETWORK_TIMEOUT_SECONDS, in clock ticks
MaxRuns == 2             \* rows of jira_analysis_runs
MaxRequests == 3         \* POST /jira/analyze requests handled
NumCallers == 2          \* concurrent callers of save_analysis_run
MaxDocTokens == 2        \* tokens of a document given to the classifier
NumThreads == 2          \* threads that call generate_embedding
MaxRows == 3             \* rows of the corpus the domain prefilter looks at one by one
MaxCalls == 2            \* generate_embedding calls of one thread

Callers == 1..NumCallers
Threads == 1..NumThreads

\* ------------------------------------------------------- program constants
MinPrefilterPool == 10           \* swarm.py:179 and :194, len(keys) >= 10
DefaultMinLocalScore == 620      \* swarm.py:25, min_local_score = 0.62
MinTrainedDocs == 10             \* jira_tools.py:277
MinVocab == 50                   \* jira_tools.py:277

None == "None"

VARIABLES
    \* the store (Postgres tables)
    jiraIssues,        \* jira_issues: issue_key -> row
    jiraEmbeddings,    \* jira_embeddings: sequence of [issue_key, embedding]
    analysisRuns,      \* jira_analysis_runs: sequence of rows, oldest first
    vocabSize,         \* size of the classifier vocabulary built from the rows
    \* the process environment
    env,               \* EMBEDDING_PROVIDER, USE_MOCK_EMBEDDING, GEMINI_API_KEY, ...
    dbFault,           \* which store query raises ("none" when the store is up)
    \* one run of run_syscros_swarm
    swPc,              \* position of the caller of run_syscros_swarm
    swIn,              \* arguments and SwarmConfig of the run
    futIssue,          \* future of agent_fetch_issue
    futLogs,           \* future of agent_logs_signals
    futSim,            \* future of agent_similarity
    ctxSteps,          \* keys written into ctx["steps"]
    swCalls,           \* collaborators invoked by the run
    swInclude,         \* include_issue_keys handed to search_similar_jira
    swSimilar,         \* results of the similarity stage (similar["results"])
    swError,           \* exception that ended the run
    \* one application of find_similar_jira
    fsPc,              \* "idle" before the call, "done" after it
    fsIn,              \* its arguments
    fsOut,             \* the list it returns
    \* one POST /search
    searchReq,         \* the request (query, limit)
    searchResp,        \* the response, and the embedding the search used
    \* one call of llm_tools.subagent
    llPc,              \* position of the caller of subagent
    llEnv,             \* LLM_ENABLED, GEMINI_API_KEY, the genai package, the timeout
    llIn,              \* prompts and input_data of the call
    llWorker,          \* the executor thread running _do_call
    llClock,           \* ticks spent in fut.result(timeout=timeout_s)
    llOut,             \* what subagent returned
    \* POST /jira/analyze
    _JIRA_ANALYZE_JOBS,          \* main.py:33, job_id -> job (ids in order of creation)
    _JIRA_ANALYZE_JOB_BY_IDEM,   \* main.py:35, the (idempotency_key, job_id) items
    anReq,             \* the last request
    anResp,            \* the response to it
    anCalls,           \* collaborators the handler invoked for that request
    anSaved,           \* what the last direct save_analysis_run call returned
    anCount,           \* requests and save_analysis_run calls so far
    \* one call of generate_embedding
    gePc,              \* "idle" before the call, "done" after it
    geIn,              \* the text
    geOut,             \* the vector returned, or the exception raised
    \* the idempotency keys of two successive /jira/analyze requests
    idPc,              \* "idle", "one" request seen, or "two"
    idReq,             \* the later request
    idKey,             \* its idempotency key
    idPrevReq,         \* the earlier request
    idPrevKey,         \* its idempotency key
    \* concurrent callers of save_analysis_run, each with its own session
    savePc,            \* caller -> "idle", "queried" (SELECT done, INSERT pending), "done"
    saveArgs,          \* caller -> the arguments of its call
    saveOut,           \* caller -> what its call returned
    \* one call of the tool rag.search_similar_jira
    tlPc, tlIn, tlOut,
    \* the classifier trained inside prefilter_issue_keys_for_domain and one
    \* call of its prediction step
    clModel,           \* label_docs, label_totals, label_word_counts, len(vocab)
    clPc, clIn, clOut,
    \* the embedding cache of services/embeddings.py and the threads that call
    \* generate_embedding concurrently
    _EMBEDDING_CACHE,       \* the module global: 0 for None, else the id of a TTLCache
    _EMBEDDING_CACHE_LOCK,  \* the module global: 0 for None, else the id of a Lock
    ecInstances,            \* the TTLCache objects created so far: id -> keys held
    ecLocks,                \* the Lock objects created so far: id -> holder, 0 when free
    ecEnv,                  \* EMBEDDING_CACHE_ENABLED, and whether cachetools imports
    ecThread,               \* thread -> position and locals of its generate_embedding call
    \* one call of prefilter_issue_keys_for_domain on the rows the query returned
    pfPc, pfIn, pfOut

storeVars == <<jiraIssues, jiraEmbeddings, analysisRuns, vocabSize>>
envVars == <<env, dbFault>>
swarmVars == <<swPc, swIn, futIssue, futLogs, futSim, ctxSteps, swCalls, swInclude, swSimilar, swError>>
fsVars == <<fsPc, fsIn, fsOut>>
searchVars == <<searchReq, searchResp>>
llmVars == <<llPc, llEnv, llIn, llWorker, llClock, llOut>>
analyzeVars == <<_JIRA_ANALYZE_JOBS, _JIRA_ANALYZE_JOB_BY_IDEM, anReq, anResp, anCalls, anSaved, anCount>>
embedVars == <<gePc, geIn, geOut>>
idemVars == <<idPc, idReq, idKey, idPrevReq, idPrevKey>>
saveVars == <<savePc, saveArgs, saveOut>>
toolVars == <<tlPc, tlIn, tlOut>>
clsVars == <<clModel, clPc, clIn, clOut>>
cacheVars == <<_EMBEDDING_CACHE, _EMBEDDING_CACHE_LOCK, ecInstances, ecLocks, ecEnv, ecThread>>
prefVars == <<pfPc, pfIn, pfOut>>
callVars == <<embedVars, idemVars, saveVars, toolVars, clsVars, cacheVars, prefVars>>
vars == <<storeVars, envVars, swarmVars, fsVars, searchVars, llmVars, analyzeVars, callVars>>
nonSwarmVars == <<storeVars, envVars, fsVars, searchVars, llmVars, analyzeVars, callVars>>

\* ---------------------------------------------------------------- helpers
Min(a, b) == IF a <= b THEN a ELSE b
Max(a, b) == IF a >= b THEN a ELSE b

Ok(v) == [ok |-> TRUE, val |-> v, err |-> None]
Raise(e) == [ok |-> FALSE, val |-> None, err |-> e]

RECURSIVE SortedKeys(_)
\* the keys of a table in the order the store returns them (ascending)
SortedKeys(S) ==
    IF S = {} THEN <<>>
    ELSE LET m == CHOOSE x \in S : \A y \in S : x <= y
         IN <<m>> \o SortedKeys(S \ {m})

SeqToSet(s) == {s[i] : i \in 1..Len(s)}

\* a slice that keeps one element too many
Take_OneMore(s, n) == SubSeq(s, 1, Min(Max(n, 0) + 1, Len(s)))
\* Python slicing s[:n]
Take(s, n) ==
    IF n >= 0 THEN SubSeq(s, 1, Min(n, Len(s)))
    ELSE SubSeq(s, 1, Max(Len(s) + n, 0))

\* ------------------------------------------------- services/embeddings.py
\* texts are small naturals; a provider maps a text to a fixed vector
\* mock and gemini vectors have two components (768 in the code), sbert vectors
\* three (384 in the code)

\* _mock_embedding: a deterministic vector seeded by the hash of the text
_mock_embedding(text) ==
    CASE text % 3 = 0 -> <<1, 0>>
      [] text % 3 = 1 -> <<1, 1>>
      [] OTHER -> <<0, 1>>

\* _sbert_embedding: raises when sentence-transformers is missing
_sbert_embedding(e, text) ==
    IF ~e.sbert_installed THEN Raise("ValueError")
    ELSE Ok(IF text % 2 = 0 THEN <<1, 0, 0>> ELSE <<0, 1, 1>>)

\* genai.embed_content: the remote provider answers, raises or answers empty
GeminiEmbedContent(e, text) ==
    CASE e.gemini = "raise" -> Raise("ProviderError")
      [] e.gemini = "empty" -> Ok(<<>>)
      [] OTHER -> Ok(IF text % 2 = 0 THEN <<0, 1>> ELSE <<1, 1>>)

Embedded(provider, vec) == Ok([provider |-> provider, vec |-> vec])

\* generate_embedding, without the cache
generate_embedding(e, text) ==
    IF e.provider = "mock" THEN Embedded("mock", _mock_embedding(text))
    ELSE IF e.provider = "sbert" THEN
        LET r == _sbert_embedding(e, text)
        IN IF r.ok THEN Embedded("sbert", r.val) ELSE r
    ELSE IF e.provider # "gemini" THEN Raise("ValueError")
    ELSE IF e.force_mock THEN Embedded("mock", _mock_embedding(text))
    ELSE IF ~e.api_key THEN Raise("ValueError")
    ELSE LET r == GeminiEmbedContent(e, text)
         IN IF r.ok THEN Embedded("gemini", r.val) ELSE r

Providers == {"mock", "sbert", "gemini", "openai"}
EnvSet ==
    [provider : Providers, force_mock : BOOLEAN, api_key : BOOLEAN,
     sbert_installed : BOOLEAN, gemini : {"ok", "raise", "empty"}]

\* ------------------------------------------------------ services/search.py
Dot(a, b) ==
    LET RECURSIVE D(_)
        D(i) == IF i = 0 THEN 0 ELSE a[i] * b[i] + D(i - 1)
    IN D(Len(a))

\* square root in thousandths
SqrtMilli(n) ==
    CASE n = 1 -> 1000
      [] n = 2 -> 1414
      [] n = 4 -> 2000
      [] OTHER -> CHOOSE r \in 0..(1000 * n) :
                    r * r <= n * 1000000 /\ (r + 1) * (r + 1) > n * 1000000

\* cosine_similarity, in thousandths
cosine_similarity(vec1, vec2) ==
    IF Len(vec1) # Len(vec2) THEN 0
    ELSE LET dot == Dot(vec1, vec2)
             n1 == Dot(vec1, vec1)
             n2 == Dot(vec2, vec2)
         IN IF n1 = 0 \/ n2 = 0 THEN 0
            ELSE LET mag == IF dot >= 0 THEN dot ELSE 0 - dot
                     q == (mag * 1000000) \div SqrtMilli(n1 * n2)
                     sim == IF dot >= 0 THEN q ELSE 0 - q
                 IN Max(0 - 1000, Min(1000, sim))

\* a stored embedding is a JSON value: a list of floats or something else
ListEmbedding(v) == [is_list |-> TRUE, vec |-> v]
NotAList == [is_list |-> FALSE, vec |-> <<>>]

\* the loop of find_similar_jira over all_embeddings (lines 136-147)
RECURSIVE Scored(_, _, _)
Scored(rows, query_embedding, exclude) ==
    IF rows = <<>> THEN <<>>
    ELSE LET r == Head(rows)
             rest == Scored(Tail(rows), query_embedding, exclude)
         IN IF ~r.embedding.is_list THEN rest
            ELSE IF Len(r.embedding.vec) # Len(query_embedding) THEN rest
            ELSE IF r.issue_key = 0 \/ r.issue_key \in exclude THEN rest
            ELSE <<[issue_key |-> r.issue_key,
                    similarity |-> cosine_similarity(query_embedding, r.embedding.vec)]>> \o rest

\* scored.sort(key=similarity, reverse=True): stable, descending
RECURSIVE SortBySimilarity(_)
SortBySimilarity(s) ==
    IF s = <<>> THEN <<>>
    ELSE LET x == Head(s)
             rest == SortBySimilarity(Tail(s))
             before == SelectSeq(rest, LAMBDA y : y.similarity > x.similarity)
             after == SelectSeq(rest, LAMBDA y : y.similarity <= x.similarity)
         IN before \o <<x>> \o after

\* a find_similar_jira that drops the excluded keys after cutting to limit
find_similar_jira_ExcludeLate(issues, embeddings, fault, query_embedding, limit, exclude_issue_keys) ==
    IF fault = "search" THEN <<>>
    ELSE IF embeddings = <<>> THEN <<>>
    ELSE IF Len(query_embedding) = 0 THEN <<>>
    ELSE LET exclude == SeqToSet(exclude_issue_keys) \ {0}
             scored == Scored(embeddings, query_embedding, {})
             top == Take(SortBySimilarity(scored), limit)
         IN SelectSeq(top, LAMBDA t : t.issue_key \in DOMAIN issues /\ t.issue_key \notin exclude)

\* find_similar_jira(query_embedding, limit, exclude_issue_keys); every caller
\* passes a list as query_embedding, and no exclude_issue_keys is the empty list
find_similar_jira(issues, embeddings, fault, query_embedding, limit, exclude_issue_keys) ==
    IF fault = "search" THEN <<>>
    ELSE IF embeddings = <<>> THEN <<>>
    ELSE IF Len(query_embedding) = 0 THEN <<>>
    ELSE LET exclude == SeqToSet(exclude_issue_keys) \ {0}
             scored == Scored(embeddings, query_embedding, exclude)
             top == Take(SortBySimilarity(scored), limit)
         IN SelectSeq(top, LAMBDA t : t.issue_key \in DOMAIN issues)

\* the parameters find_similar_jira declares (search.py:109-113)
FindSimilarJiraParams == {"query_embedding", "limit", "exclude_issue_keys"}

\* ------------------------------------------------- agents/tools/jira_tools.py
\* search_similar_jira: embeds the query, then calls find_similar_jira with the
\* keywords limit, exclude_issue_keys and include_issue_keys
search_similar_jira(e, issues, embeddings, fault, query, limit, exclude_issue_keys, include_issue_keys) ==
    LET emb == generate_embedding(e, query)
        passed == {"query_embedding", "limit", "exclude_issue_keys", "include_issue_keys"}
    IN IF ~emb.ok THEN emb
       ELSE IF ~(passed \subseteq FindSimilarJiraParams) THEN Raise("TypeError")
       ELSE LET results == find_similar_jira(issues, embeddings, fault, emb.val.vec,
                                             limit, exclude_issue_keys)
            IN Ok([results_count |-> Len(results), results |-> results])

\* an Optional[List[str]]: None, or a list of keys
NoKeys == [some |-> FALSE, keys |-> <<>>]
SomeKeys(ks) == [some |-> TRUE, keys |-> ks]
\* Python's "out or None"
OrNone(ks) == IF ks = <<>> THEN NoKeys ELSE SomeKeys(ks)

\* get_issue_from_db: key 0 is the empty string
get_issue_from_db(issues, issue_key) ==
    IF issue_key = 0 THEN Raise("ValueError")
    ELSE IF issue_key \notin DOMAIN issues THEN Raise("ValueError")
    ELSE Ok(issue_key)

\* str.lower() on the component and domain names of the model
Lower(x) == IF x = "GFX" THEN "gfx" ELSE IF x = "ChromeOS" THEN "chromeos" ELSE x

\* resolve_component_from_db: a known component that matches case-insensitively,
\* else the input (the names of the model share no substring and no token)
resolve_component_from_db(issues, component) ==
    LET known == UNION {issues[k].components : k \in DOMAIN issues}
    IN IF \E k \in known : Lower(k) = Lower(component)
       THEN CHOOSE k \in known : Lower(k) = Lower(component)
       ELSE component

\* prefilter_issue_keys_for_component: the keys whose components text holds the
\* resolved component, in row order
prefilter_issue_keys_for_component(issues, fault, component) ==
    IF component = None THEN Ok(NoKeys)
    ELSE IF fault = "component" THEN Raise("OperationalError")
    ELSE LET resolved_low == Lower(resolve_component_from_db(issues, component))
             hits == SelectSeq(SortedKeys(DOMAIN issues),
                        LAMBDA k : \E x \in issues[k].components : Lower(x) = resolved_low)
         IN Ok(OrNone(hits))

\* _domain_keywords: the domains, in dictionary order
Domains == <<"display", "media", "audio", "network", "storage", "power", "input">>

\* _normalize_domain
_normalize_domain(domain) ==
    IF domain = None THEN None
    ELSE IF Lower(domain) \in {"disp", "gfx", "graphic", "graphics"} THEN "display"
    ELSE IF Lower(domain) \in {"net", "networking", "wifi"} THEN "network"
    ELSE IF Lower(domain) \in {"vid", "video", "codec"} THEN "media"
    ELSE Lower(domain)

\* prefilter_issue_keys_for_domain: a row carries the domains whose keywords hit
\* its components and labels (kw) and the domains the classifier gives a
\* probability of at least 0.35 (ml); every row has a tokenised summary
prefilter_issue_keys_for_domain(issues, vocab, fault, domain) ==
    LET d == _normalize_domain(domain)
    IN IF d = None THEN Ok(NoKeys)
       ELSE IF d \notin SeqToSet(Domains) THEN Ok(NoKeys)
       ELSE IF fault = "domain" THEN Raise("OperationalError")
       ELSE LET rows == SortedKeys(DOMAIN issues)
                component_hits == SelectSeq(rows, LAMBDA k : d \in issues[k].kw)
                trained_docs == Cardinality({k \in DOMAIN issues : issues[k].kw # {}})
                ml_hits == SelectSeq(rows, LAMBDA k : d \in issues[k].ml)
                merged == component_hits \o
                          SelectSeq(ml_hits, LAMBDA k : k \notin SeqToSet(component_hits))
            IN IF trained_docs < MinTrainedDocs \/ vocab < MinVocab
               THEN Ok(OrNone(SortedKeys(SeqToSet(component_hits))))
               ELSE Ok(OrNone(merged))

\* ------------------------------------------------------- agents/swarm.py
\* the text of a query: the issue's embedding_text, with the log signatures
\* appended when there are any
QueryText(issue_key, has_signals) == 3 * issue_key + (IF has_signals THEN 1 ELSE 0)

\* _top_similarity
_top_similarity(similar) ==
    IF Len(similar.results) > 0 THEN similar.results[1].similarity ELSE 0

\* a component prefilter that wants more than the threshold
ComponentPoolStrict(issues, fault, component) ==
    IF component = None THEN NoKeys
    ELSE LET pre == prefilter_issue_keys_for_component(issues, fault, component)
         IN IF pre.ok /\ pre.val.some /\ Len(pre.val.keys) > MinPrefilterPool
            THEN SomeKeys(pre.val.keys) ELSE NoKeys

\* lines 164-197 of agent_similarity: the prefilters tried and the
\* include_issue_keys they leave
ComponentPool(issues, fault, component) ==
    IF component = None THEN NoKeys
    ELSE LET pre == prefilter_issue_keys_for_component(issues, fault, component)
         IN IF pre.ok /\ pre.val.some /\ Len(pre.val.keys) >= MinPrefilterPool
            THEN SomeKeys(pre.val.keys) ELSE NoKeys

DomainPool(issues, vocab, fault, domain) ==
    IF domain = None THEN NoKeys
    ELSE LET pre == prefilter_issue_keys_for_domain(issues, vocab, fault, domain)
         IN IF pre.ok /\ pre.val.some /\ Len(pre.val.keys) >= MinPrefilterPool
            THEN SomeKeys(pre.val.keys) ELSE NoKeys

IncludeIssueKeys(issues, vocab, fault, component, domain) ==
    LET c == ComponentPool(issues, fault, component)
    IN IF c.some THEN c ELSE DomainPool(issues, vocab, fault, domain)

\* the prefilters agent_similarity invokes
PrefilterCalls(issues, fault, component, domain) ==
    (IF component # None THEN {"prefilter_issue_keys_for_component"} ELSE {})
    \cup (IF ~ComponentPool(issues, fault, component).some /\ domain # None
          THEN {"prefilter_issue_keys_for_domain"} ELSE {})

\* the ctx["steps"] entries agent_similarity writes before the search
PrefilterSteps(issues, vocab, fault, component, domain) ==
    (IF component # None /\ prefilter_issue_keys_for_component(issues, fault, component).ok
     THEN {"component_prefilter"} ELSE {})
    \cup (IF ~ComponentPool(issues, fault, component).some /\ domain # None
             /\ prefilter_issue_keys_for_domain(issues, vocab, fault, domain).ok
          THEN {"domain_prefilter"} ELSE {})

NoFuture == [state |-> "none", ok |-> FALSE, err |-> None]
Pending == [state |-> "pending", ok |-> FALSE, err |-> None]
Resolved(r) == [state |-> "done", ok |-> r.ok, err |-> r.err]

\* an issue key is a number: 0 is the empty string, a positive number a key of
\* the form JIRA_ISSUE_KEY_RE accepts, MalformedKey a non-empty string it rejects
MalformedKey == 0 - 1
JIRA_ISSUE_KEY_RE(k) == k >= 1

SwarmInputs ==
    [issue_key : {MalformedKey, 0, 1, NumIssues + 1},
     logs : {"none", "text", "file", "missing_file"},
     component : {None, "GFX"},
     domain : {None, "gfx", "bogus"},
     external_knowledge : BOOLEAN,
     min_local_score : {DefaultMinLocalScore},
     limit : {5}]

\* lines 106-124 and 150-152: validate the key, build ctx, submit stage 1
SwarmStart(in) ==
    /\ swPc = "idle"
    /\ swIn' = in
    /\ IF in.issue_key = 0
       THEN /\ swPc' = "failed"
            /\ swError' = "ValueError"
            /\ UNCHANGED <<futIssue, futLogs>>
       ELSE /\ swPc' = "stage1"
            /\ futIssue' = Pending
            /\ futLogs' = Pending
            /\ UNCHANGED swError
    /\ UNCHANGED <<futSim, ctxSteps, swCalls, swInclude, swSimilar>>
    /\ UNCHANGED nonSwarmVars

\* agent_fetch_issue, on a worker thread
AgentFetchIssue ==
    /\ futIssue.state = "pending"
    /\ LET r == get_issue_from_db(jiraIssues, swIn.issue_key)
       IN /\ futIssue' = Resolved(r)
          /\ ctxSteps' = IF r.ok THEN ctxSteps \cup {"issue"} ELSE ctxSteps
    /\ swCalls' = swCalls \cup {"get_issue_from_db"}
    /\ UNCHANGED <<swPc, swIn, futLogs, futSim, swInclude, swSimilar, swError>>
    /\ UNCHANGED nonSwarmVars

\* load_logs: the file is missing
load_logs(logs) == IF logs = "missing_file" THEN Raise("ValueError") ELSE Ok(logs)

\* agent_logs_signals, on a worker thread
AgentLogsSignals ==
    /\ futLogs.state = "pending"
    /\ IF swIn.logs = "none"
       THEN /\ futLogs' = Resolved(Ok(None))
            /\ UNCHANGED <<ctxSteps, swCalls>>
       ELSE IF swIn.logs = "text"
       THEN /\ futLogs' = Resolved(Ok("signals"))
            /\ ctxSteps' = ctxSteps \cup {"log_signals"}
            /\ swCalls' = swCalls \cup {"extract_error_signals"}
       ELSE LET loaded == load_logs(swIn.logs)
            IN IF loaded.ok
               THEN /\ futLogs' = Resolved(Ok("signals"))
                    /\ ctxSteps' = ctxSteps \cup {"log_signals"}
                    /\ swCalls' = swCalls \cup {"load_logs", "extract_error_signals"}
               ELSE /\ futLogs' = Resolved(loaded)
                    /\ swCalls' = swCalls \cup {"load_logs"}
                    /\ UNCHANGED ctxSteps
    /\ UNCHANGED <<swPc, swIn, futIssue, futSim, swInclude, swSimilar, swError>>
    /\ UNCHANGED nonSwarmVars

\* a join that does not re-raise the failure of the issue fetch
JoinIssueIgnoringFailure ==
    /\ swPc = "stage1"
    /\ futIssue.state = "done"
    /\ swPc' = "join_logs"
    /\ UNCHANGED <<swIn, futIssue, futLogs, futSim, ctxSteps, swCalls, swInclude, swSimilar, swError>>
    /\ UNCHANGED nonSwarmVars

\* line 153: issue = fut_issue.result()
JoinIssue ==
    /\ swPc = "stage1"
    /\ futIssue.state = "done"
    /\ IF futIssue.ok
       THEN swPc' = "join_logs" /\ UNCHANGED swError
       ELSE swPc' = "unwind" /\ swError' = futIssue.err
    /\ UNCHANGED <<swIn, futIssue, futLogs, futSim, ctxSteps, swCalls, swInclude, swSimilar>>
    /\ UNCHANGED nonSwarmVars

\* the exception leaves the with block: the executor waits for its workers
ExecutorShutdown ==
    /\ swPc = "unwind"
    /\ futLogs.state = "done"
    /\ swPc' = "failed"
    /\ UNCHANGED <<swIn, futIssue, futLogs, futSim, ctxSteps, swCalls, swInclude, swSimilar, swError>>
    /\ UNCHANGED nonSwarmVars

\* a main thread that submits agent_similarity without joining the log task
JoinLogs_NoJoin ==
    /\ swPc = "join_logs"
    /\ IF futLogs.state = "done" /\ ~futLogs.ok
       THEN swPc' = "failed" /\ swError' = futLogs.err /\ UNCHANGED futSim
       ELSE swPc' = "stage2" /\ futSim' = Pending /\ UNCHANGED swError
    /\ UNCHANGED <<swIn, futIssue, futLogs, ctxSteps, swCalls, swInclude, swSimilar>>
    /\ UNCHANGED nonSwarmVars
\* line 154: log_signals = fut_logs.result(), then line 209 submits agent_similarity
JoinLogs ==
    /\ swPc = "join_logs"
    /\ futLogs.state = "done"
    /\ IF futLogs.ok
       THEN swPc' = "stage2" /\ futSim' = Pending /\ UNCHANGED swError
       ELSE swPc' = "failed" /\ swError' = futLogs.err /\ UNCHANGED futSim
    /\ UNCHANGED <<swIn, futIssue, futLogs, ctxSteps, swCalls, swInclude, swSimilar>>
    /\ UNCHANGED nonSwarmVars

\* agent_similarity, on a worker thread
AgentSimilarity ==
    /\ futSim.state = "pending"
    /\ LET include == IncludeIssueKeys(jiraIssues, vocabSize, dbFault, swIn.component, swIn.domain)
           similar == search_similar_jira(env, jiraIssues, jiraEmbeddings, dbFault,
                          QueryText(swIn.issue_key, swIn.logs # "none"), swIn.limit,
                          <<swIn.issue_key>>, include)
       IN /\ swInclude' = include
          /\ futSim' = Resolved(similar)
          /\ swSimilar' = IF similar.ok THEN similar.val.results ELSE <<>>
          /\ swCalls' = swCalls \cup {"search_similar_jira"}
                \cup PrefilterCalls(jiraIssues, dbFault, swIn.component, swIn.domain)
          /\ ctxSteps' = ctxSteps
                \cup PrefilterSteps(jiraIssues, vocabSize, dbFault, swIn.component, swIn.domain)
                \cup (IF similar.ok THEN {"similar"} ELSE {})
    /\ UNCHANGED <<swPc, swIn, futIssue, futLogs, swError>>
    /\ UNCHANGED nonSwarmVars

\* line 210: similar = fut_sim.result()
JoinSimilarity ==
    /\ swPc = "stage2"
    /\ futSim.state = "done"
    /\ IF futSim.ok
       THEN swPc' = "fallback_check" /\ UNCHANGED swError
       ELSE swPc' = "failed" /\ swError' = futSim.err
    /\ UNCHANGED <<swIn, futIssue, futLogs, futSim, ctxSteps, swCalls, swInclude, swSimilar>>
    /\ UNCHANGED nonSwarmVars

\* the store of a swarm run: nComp rows carry the component, nDom rows the
\* domain keyword, nMl rows are classified into the domain
SwarmIssues(nComp, nDom, nMl) ==
    [k \in 1..NumIssues |->
        [summary |-> 1,
         components |-> IF k <= nComp THEN {"gfx"} ELSE {},
         kw |-> IF k > NumIssues - nDom THEN {"display"} ELSE {},
         ml |-> IF k <= nMl THEN {"display"} ELSE {}]]

SwarmEmbeddings(v) ==
    [k \in 1..NumIssues |-> [issue_key |-> k, embedding |-> ListEmbedding(v)]]

SwarmEnvs ==
    {e \in EnvSet : /\ e.provider \in {"mock", "gemini"}
                    /\ ~e.force_mock /\ ~e.api_key
                    /\ e.sbert_installed /\ e.gemini = "ok"}

FsIdle ==
    /\ fsPc = "idle"
    /\ fsIn = [query_embedding |-> <<>>, limit |-> 0, exclude_issue_keys |-> <<>>]
    /\ fsOut = <<>>

NoVector == [provider |-> None, vec |-> <<>>]
SearchIdle ==
    /\ searchReq = [query |-> 0, limit |-> 0]
    /\ searchResp = [status |-> 0, used |-> NoVector, results |-> <<>>]

LlmOff == [enabled |-> FALSE, api_key |-> FALSE, deps |-> FALSE, genai |-> "ok", timeout_s |-> 1]
NoLlmInput == [prompts |-> 0, results |-> 0]
NoText == [kind |-> None, reason |-> None, input |-> NoLlmInput]
LlmIdle ==
    /\ llPc = "idle" /\ llEnv = LlmOff /\ llIn = NoLlmInput
    /\ llWorker = "none" /\ llClock = 0 /\ llOut = NoText

NoRequest ==
    [issue_key |-> 0, summary |-> 0, domain |-> None, component |-> None, os |-> None,
     logs |-> <<>>, notes |-> <<>>, limit |-> 5, external_knowledge |-> FALSE,
     min_local_score |-> DefaultMinLocalScore, external_max_results |-> 5,
     analysis_mode |-> "async", save_run |-> TRUE]
NoResponse ==
    [status |-> 0, analysis_status |-> None, analysis |-> 0, report |-> None, run |-> 0,
     job_id |-> 0]
AnalyzeIdle ==
    /\ _JIRA_ANALYZE_JOBS = <<>> /\ _JIRA_ANALYZE_JOB_BY_IDEM = {}
    /\ anReq = NoRequest /\ anResp = NoResponse /\ anCalls = {}
    /\ anSaved = Raise(None) /\ anCount = 0

NotCalled == Raise(None)
EmbedIdle == gePc = "idle" /\ geIn = 0 /\ geOut = NotCalled
IdemIdle ==
    /\ idPc = "idle" /\ idReq = NoRequest /\ idPrevReq = NoRequest
    /\ idKey = [issue_key |-> 0] /\ idPrevKey = [issue_key |-> 0]
NoSaveArgs == [issue_key |-> 0, idempotency_key |-> [issue_key |-> 0], analysis |-> 0]
SaveIdle ==
    /\ savePc = [c \in Callers |-> "idle"]
    /\ saveArgs = [c \in Callers |-> NoSaveArgs]
    /\ saveOut = [c \in Callers |-> NotCalled]
ToolIdle == tlPc = "idle" /\ tlIn = [query |-> 0, limit |-> 0] /\ tlOut = NotCalled
NoModel == [label_docs |-> <<>>, label_totals |-> <<>>, label_word_counts |-> <<>>, V |-> 0]
ClsIdle == clModel = NoModel /\ clPc = "idle" /\ clIn = <<>> /\ clOut = <<>>
IdleThread ==
    [pc |-> "idle", text |-> 0, task |-> "retrieval_document", phase |-> "get", cache |-> 0, lock |-> 0,
     lookup |-> "none", provider |-> FALSE, stored |-> FALSE, calls |-> 0, out |-> NotCalled]
CacheIdle ==
    /\ _EMBEDDING_CACHE = 0 /\ _EMBEDDING_CACHE_LOCK = 0
    /\ ecInstances = <<>> /\ ecLocks = <<>>
    /\ ecEnv = [enabled |-> FALSE, cachetools |-> FALSE]
    /\ ecThread = [t \in Threads |-> IdleThread]
NoPrefInput == [items |-> <<>>, others |-> 0, vocab |-> 0, domain |-> None]
PrefIdle == pfPc = "idle" /\ pfIn = NoPrefInput /\ pfOut = NotCalled
CallsIdle == EmbedIdle /\ IdemIdle /\ SaveIdle /\ ToolIdle /\ ClsIdle /\ CacheIdle /\ PrefIdle

SwarmIdle ==
    /\ swPc = "idle"
    /\ swIn = CHOOSE in \in SwarmInputs : TRUE
    /\ futIssue = NoFuture /\ futLogs = NoFuture /\ futSim = NoFuture
    /\ ctxSteps = {} /\ swCalls = {} /\ swInclude = NoKeys /\ swSimilar = <<>>
    /\ swError = None

Init ==
    /\ \E nComp \in {MinPrefilterPool - 1, MinPrefilterPool},
          nDom \in {MinPrefilterPool - 1, MinPrefilterPool},
          nMl \in {0, 1} :
          jiraIssues = SwarmIssues(nComp, nDom, nMl)
    /\ \E v \in {<<1, 1>>, <<0, 1>>} : jiraEmbeddings = SwarmEmbeddings(v)
    /\ analysisRuns = <<>>
    /\ vocabSize \in {MinVocab - 1, MinVocab}
    /\ env \in SwarmEnvs
    /\ dbFault \in {"none", "component", "domain", "search"}
    /\ SwarmIdle /\ FsIdle /\ SearchIdle /\ LlmIdle /\ AnalyzeIdle /\ CallsIdle

Next ==
    \/ \E in \in SwarmInputs : SwarmStart(in)
    \/ AgentFetchIssue
    \/ AgentLogsSignals
    \/ JoinIssue
    \/ ExecutorShutdown
    \/ JoinLogs
    \/ AgentSimilarity
    \/ JoinSimilarity

Spec == Init /\ [][Next]_vars

\* --------------------------------------------- find_similar_jira on its own
\* the rows of jira_embeddings given to find_similar_jira: row i has key i (the
\* first row may have a blank key) and any stored embedding
StoredEmbeddings ==
    {ListEmbedding(<<1, 0>>), ListEmbedding(<<1, 1>>), ListEmbedding(<<1, 0, 0>>), NotAList}
Corpora ==
    {<<>>} \cup
    {[i \in 1..MaxCorpus |-> [issue_key |-> IF i = 1 /\ blank THEN 0 ELSE i, embedding |-> emb[i]]] :
        blank \in BOOLEAN, emb \in [1..MaxCorpus -> StoredEmbeddings]}
IssueRow == [summary |-> 1, components |-> {}, kw |-> {}, ml |-> {}]

InitSearch ==
    /\ jiraEmbeddings \in Corpora
    /\ \E missing \in {{}, {2}} : jiraIssues = [k \in (1..MaxCorpus) \ missing |-> IssueRow]
    /\ analysisRuns = <<>>
    /\ vocabSize = 0
    /\ env \in {e \in SwarmEnvs : e.provider = "mock"}
    /\ dbFault \in {"none", "search"}
    /\ SwarmIdle /\ FsIdle /\ SearchIdle /\ LlmIdle /\ AnalyzeIdle /\ CallsIdle

FindSimilarJiraCall(query_embedding, limit, exclude_issue_keys) ==
    /\ fsPc = "idle"
    /\ fsPc' = "done"
    /\ fsIn' = [query_embedding |-> query_embedding, limit |-> limit,
                exclude_issue_keys |-> exclude_issue_keys]
    /\ fsOut' = find_similar_jira(jiraIssues, jiraEmbeddings, dbFault,
                                  query_embedding, limit, exclude_issue_keys)
    /\ UNCHANGED <<storeVars, envVars, swarmVars, searchVars, llmVars, analyzeVars, callVars>>

NextSearch ==
    \E q \in {<<1, 0>>, <<>>}, limit \in 0..MaxLimit,
       ex \in {<<>>, <<1>>, <<2>>, <<1, 2>>, <<0, 3>>} :
        FindSimilarJiraCall(q, limit, ex)

SpecSearch == InitSearch /\ [][NextSearch]_vars

\* ------------------------------------------------ POST /search (main.py)
\* lines 251-268: the handler's own deterministic vector, with the dimension
\* of the configured provider
MainFallbackEmbedding(e, text) ==
    IF e.provider = "sbert"
    THEN [provider |-> "mock", vec |-> _mock_embedding(text) \o <<0>>]
    ELSE [provider |-> "mock", vec |-> _mock_embedding(text)]

\* lines 238-269: the query embedding the handler searches with; the except
\* clause also catches the ValueError raised for an empty vector
SearchQueryEmbedding(e, text) ==
    LET r == generate_embedding(e, text)
    IN IF r.ok /\ Len(r.val.vec) > 0 THEN r.val
       ELSE MainFallbackEmbedding(e, text)

\* search_similar: find_similar_jira does not raise, the handler answers 200
SearchSimilar(req) ==
    /\ searchResp.status = 0
    /\ searchReq' = req
    /\ LET emb == SearchQueryEmbedding(env, req.query)
       IN searchResp' =
            [status |-> 200, used |-> emb,
             results |-> find_similar_jira(jiraIssues, jiraEmbeddings, dbFault,
                                           emb.vec, req.limit, <<>>)]
    /\ UNCHANGED <<storeVars, envVars, swarmVars, fsVars, llmVars, analyzeVars, callVars>>

InitSearchApi ==
    /\ jiraEmbeddings \in {c \in Corpora : c # <<>> /\ c[1].issue_key = 1
                                           /\ \A i \in 1..Len(c) : c[i].embedding = c[1].embedding}
    /\ jiraIssues = [k \in 1..MaxCorpus |-> IssueRow]
    /\ analysisRuns = <<>>
    /\ vocabSize = 0
    /\ env \in EnvSet
    /\ dbFault = "none"
    /\ SwarmIdle /\ FsIdle /\ SearchIdle /\ LlmIdle /\ AnalyzeIdle /\ CallsIdle

NextSearchApi ==
    \E req \in [query : 0..2, limit : 1..MaxLimit] : SearchSimilar(req)

SpecSearchApi == InitSearchApi /\ [][NextSearchApi]_vars

\* ------------------------------------------- llm_tools.subagent (llm_tools.py)
\* lines 41-178: the offline text is a function of the reason and of the payload
_offline_fallback(reason, in) == [kind |-> "offline", reason |-> reason, input |-> in]

\* genai: whether genai.configure and genai.GenerativeModel (lines 197-199) return or raise
LlmEnvs ==
    [enabled : BOOLEAN, api_key : BOOLEAN, deps : BOOLEAN, genai : {"ok", "raise"},
     timeout_s : 1..MaxTicks]
LlmInputs == [prompts : 0..1, results : 0..1]

\* lines 180-222: the early fallbacks, then the call is submitted to a
\* one-thread executor and the caller enters fut.result(timeout=timeout_s)
Subagent(in) ==
    /\ llPc = "idle"
    /\ llIn' = in
    /\ IF ~llEnv.enabled
       THEN /\ llPc' = "returned"
            /\ llOut' = _offline_fallback("LLM is disabled", in)
            /\ UNCHANGED llWorker
       ELSE IF ~llEnv.api_key
       THEN /\ llPc' = "returned"
            /\ llOut' = _offline_fallback("LLM is not configured", in)
            /\ UNCHANGED llWorker
       ELSE IF ~llEnv.deps
       THEN /\ llPc' = "returned"
            /\ llOut' = _offline_fallback("LLM deps missing", in)
            /\ UNCHANGED llWorker
       ELSE IF llEnv.genai = "raise"
       THEN \* lines 197-199 stand outside every try: the exception leaves subagent
            /\ llPc' = "raised"
            /\ UNCHANGED <<llOut, llWorker>>
       ELSE /\ llPc' = "result_wait"
            /\ llWorker' = "running"
            /\ UNCHANGED llOut
    /\ UNCHANGED <<llEnv, llClock>>
    /\ UNCHANGED <<storeVars, envVars, swarmVars, fsVars, searchVars, analyzeVars, callVars>>

\* a second passes while the caller waits in fut.result and the call is in flight
Tick ==
    /\ llPc = "result_wait" /\ llWorker = "running"
    /\ llClock < llEnv.timeout_s
    /\ llClock' = llClock + 1
    /\ UNCHANGED <<llPc, llEnv, llIn, llWorker, llOut>>
    /\ UNCHANGED <<storeVars, envVars, swarmVars, fsVars, searchVars, analyzeVars, callVars>>

\* lines 217-219, _do_call in the worker thread: m.generate_content returns a
\* text, returns no text, or raises; it may also never return
GenerateContent(outcome) ==
    /\ llWorker = "running"
    /\ llWorker' = outcome
    /\ UNCHANGED <<llPc, llEnv, llIn, llClock, llOut>>
    /\ UNCHANGED <<storeVars, envVars, swarmVars, fsVars, searchVars, analyzeVars, callVars>>

\* lines 223-226: the call finished in time; leaving the with block joins a
\* worker that is already done
FutureResult ==
    /\ llPc = "result_wait" /\ llWorker # "running"
    /\ llPc' = "returned"
    /\ llOut' = IF llWorker = "text" THEN [kind |-> "llm", reason |-> None, input |-> llIn]
                ELSE IF llWorker = "empty" THEN [kind |-> "newline", reason |-> None, input |-> llIn]
                ELSE _offline_fallback("LLM call failed", llIn)
    /\ UNCHANGED <<llEnv, llIn, llWorker, llClock>>
    /\ UNCHANGED <<storeVars, envVars, swarmVars, fsVars, searchVars, analyzeVars, callVars>>

\* line 223: fut.result raises TimeoutError inside the with block of line 221;
\* ThreadPoolExecutor.__exit__ calls shutdown(wait=True)
FutureTimeout ==
    /\ llPc = "result_wait" /\ llWorker = "running"
    /\ llClock = llEnv.timeout_s
    /\ llPc' = "shutdown_wait"
    /\ UNCHANGED <<llEnv, llIn, llWorker, llClock, llOut>>
    /\ UNCHANGED <<storeVars, envVars, swarmVars, fsVars, searchVars, analyzeVars, callVars>>

\* lines 221 and 225-226: shutdown(wait=True) joins the worker thread, then the
\* TimeoutError reaches the except clause
ExecutorExit ==
    /\ llPc = "shutdown_wait" /\ llWorker # "running"
    /\ llPc' = "returned"
    /\ llOut' = _offline_fallback("LLM call failed", llIn)
    /\ UNCHANGED <<llEnv, llIn, llWorker, llClock>>
    /\ UNCHANGED <<storeVars, envVars, swarmVars, fsVars, searchVars, analyzeVars, callVars>>

InitLLM ==
    /\ jiraIssues = <<>> /\ jiraEmbeddings = <<>> /\ analysisRuns = <<>> /\ vocabSize = 0
    /\ env \in {e \in SwarmEnvs : e.provider = "mock"}
    /\ dbFault = "none"
    /\ SwarmIdle /\ FsIdle /\ SearchIdle /\ AnalyzeIdle /\ CallsIdle
    /\ llPc = "idle" /\ llEnv \in LlmEnvs /\ llIn = NoLlmInput
    /\ llWorker = "none" /\ llClock = 0 /\ llOut = NoText

NextLLM ==
    \/ \E in \in LlmInputs : Subagent(in)
    \/ Tick
    \/ \E outcome \in {"text", "empty", "raised"} : GenerateContent(outcome)
    \/ FutureResult
    \/ FutureTimeout
    \/ ExecutorExit

SpecLLM == InitLLM /\ [][NextLLM]_vars

\* ---------------------------------------- POST /jira/analyze (main.py)
\* lines 570-592: sha256 over the canonical payload, taken as the payload itself
\* texts of logs and notes are sequences of blocks of 20000 characters
\* a fingerprint of the whole text
_fp_text_Whole(s, n) == s

\* _fp_text(s, n), lines 572-578, with n in blocks: the hash of the last n blocks
_fp_text(s, n) ==
    IF s = <<>> THEN <<>>
    ELSE IF Len(s) > n THEN SubSeq(s, Len(s) - n + 1, Len(s))
    ELSE s

\* str(x or "").strip().lower()
LowerOrEmpty(x) == IF x = None THEN "" ELSE Lower(x)

idempotency_key(req) ==
    [issue_key |-> req.issue_key, summary |-> req.summary,
     domain |-> LowerOrEmpty(req.domain),
     component |-> LowerOrEmpty(req.component),
     os |-> LowerOrEmpty(req.os),
     logs_fp |-> _fp_text(req.logs, 2),
     notes_fp |-> _fp_text(req.notes, 1),
     limit |-> req.limit,
     external_knowledge |-> req.external_knowledge,
     min_local_score |-> req.min_local_score]
\* idempotency_key=None of save_analysis_run
NoIdem ==
    [issue_key |-> 0, summary |-> 0, domain |-> "", component |-> "", os |-> "",
     logs_fp |-> <<>>, notes_fp |-> <<>>, limit |-> 0, external_knowledge |-> FALSE,
     min_local_score |-> 0]

\* .filter(issue_key == key [, idempotency_key == idem]).order_by(created_at.desc()).first():
\* the index of the newest matching row of jira_analysis_runs, 0 when there is none
LastRun_Oldest(runs, key, idem, any_idem) ==
    LET hits == {i \in 1..Len(runs) :
                    /\ runs[i].issue_key = key
                    /\ (any_idem \/ runs[i].idempotency_key = idem)}
    IN IF hits = {} THEN 0 ELSE CHOOSE i \in hits : \A j \in hits : i <= j
LastRun(runs, key, idem, any_idem) ==
    LET hits == {i \in 1..Len(runs) :
                    /\ runs[i].issue_key = key
                    /\ (any_idem \/ runs[i].idempotency_key = idem)}
    IN IF hits = {} THEN 0 ELSE CHOOSE i \in hits : \A j \in hits : j <= i

\* jira_tools.save_analysis_run (jira_tools.py:556-606): the rows after the
\* call and what the call returns
save_analysis_run(runs, issue_key, idem, analysis) ==
    IF issue_key = 0 THEN [runs |-> runs, out |-> Raise("ValueError")]
    ELSE LET existing == IF idem = NoIdem THEN 0 ELSE LastRun(runs, issue_key, idem, FALSE)
         IN IF existing # 0
            THEN [runs |-> runs, out |-> Ok([id |-> existing, idempotent |-> TRUE])]
            ELSE [runs |-> Append(runs, [issue_key |-> issue_key, idempotency_key |-> idem,
                                         analysis |-> analysis]),
                  out |-> Ok([id |-> Len(runs) + 1, idempotent |-> FALSE])]

\* the embedding text built by intake_issue_from_user_input (lines 486-500)
IntakeText(issue_key, summary) == 3 * issue_key + summary

\* db.merge(JiraEmbedding(issue_key=key, embedding=emb))
MergeEmbedding(embeddings, key, vec) ==
    IF \E i \in 1..Len(embeddings) : embeddings[i].issue_key = key
    THEN [i \in 1..Len(embeddings) |->
            IF embeddings[i].issue_key = key
            THEN [issue_key |-> key, embedding |-> ListEmbedding(vec)]
            ELSE embeddings[i]]
    ELSE Append(embeddings, [issue_key |-> key, embedding |-> ListEmbedding(vec)])

\* jira_tools.intake_issue_from_user_input (jira_tools.py:437-553): the issue
\* row and its embedding are committed together, or the session is rolled back
intake_issue_from_user_input(e, issues, embeddings, key, summary) ==
    LET emb == generate_embedding(e, IntakeText(key, summary))
    IN IF ~emb.ok THEN [ok |-> FALSE, issues |-> issues, embeddings |-> embeddings]
       ELSE IF Len(emb.val.vec) = 0
       THEN [ok |-> FALSE, issues |-> issues, embeddings |-> embeddings]
       ELSE [ok |-> TRUE,
             issues |-> [k \in DOMAIN issues \cup {key} |->
                            IF k = key
                            THEN [summary |-> summary, components |-> {}, kw |-> {}, ml |-> {}]
                            ELSE issues[k]],
             embeddings |-> MergeEmbedding(embeddings, key, emb.val.vec)]

\* run_syscros_swarm as the handler calls it (no log file, no component): the
\* issue fetch, then the similarity stage; Ok carries the similar results
run_syscros_swarm(e, issues, embeddings, vocab, fault, key, domain) ==
    LET issue == get_issue_from_db(issues, key)
    IN IF ~issue.ok THEN issue
       ELSE search_similar_jira(e, issues, embeddings, fault, QueryText(key, FALSE), 5,
                                <<key>>, IncludeIssueKeys(issues, vocab, fault, None, domain))

\* a response; report tells where its report text comes from: "stored" is the
\* report column of the run returned, "computed" the fast run of line 708
Response(status, analysis_status, analysis, report, run, job_id) ==
    [status |-> status, analysis_status |-> analysis_status, analysis |-> analysis,
     report |-> report, run |-> run, job_id |-> job_id]
InternalServerError == Response(500, None, 0, None, 0, 0)

\* the text llm_tools.subagent produces for a run that reaches the analysis
AnalysisText == 1

AnalyzeRequests ==
    [issue_key : 1..2, summary : 1..2, domain : {None, "GFX"},
     component : {None}, os : {None}, logs : {<<>>}, notes : {<<>>}, limit : {5},
     external_knowledge : {FALSE}, min_local_score : {DefaultMinLocalScore},
     external_max_results : {5},
     analysis_mode : {"async", "skip"}, save_run : {TRUE}]

\* _JIRA_ANALYZE_JOB_BY_IDEM.get(idempotency_key), 0 for None
JobByIdem(idem) ==
    IF \E m \in _JIRA_ANALYZE_JOB_BY_IDEM : m.idempotency_key = idem
    THEN (CHOOSE m \in _JIRA_ANALYZE_JOB_BY_IDEM : m.idempotency_key = idem).job_id
    ELSE 0

\* jira_analyze, lines 552-887. The handler is a coroutine without an await
\* before its return: it runs as one step of the event loop.
JiraAnalyze(req) ==
    /\ anCount < MaxRequests
    /\ anCount' = anCount + 1
    /\ anReq' = req
    /\ UNCHANGED <<vocabSize, anSaved>>
    /\ LET key == req.issue_key
           summary == req.summary
           idem == idempotency_key(req)
           \* lines 601-602
           existing == IF key \in DOMAIN jiraIssues THEN jiraIssues[key].summary = summary
                       ELSE FALSE
           exact_run == IF existing THEN LastRun(analysisRuns, key, idem, FALSE) ELSE 0
           last_run == IF existing THEN LastRun(analysisRuns, key, idem, TRUE) ELSE 0
           \* lines 643-647
           prev_job_id == JobByIdem(idem)
           st == IF prev_job_id = 0 THEN None ELSE _JIRA_ANALYZE_JOBS[prev_job_id].status
           \* lines 689-717
           intake == intake_issue_from_user_input(env, jiraIssues, jiraEmbeddings, key, summary)
           out_report == run_syscros_swarm(env, intake.issues, intake.embeddings, vocabSize,
                                           dbFault, key, req.domain)
           job_id == Len(_JIRA_ANALYZE_JOBS) + 1
           saved == IF req.save_run
                    THEN save_analysis_run(analysisRuns, key, idem, AnalysisText).runs
                    ELSE analysisRuns
       IN IF exact_run # 0 /\ analysisRuns[exact_run].analysis # 0
          THEN \* lines 609-620
               /\ anResp' = Response(200, "CACHED", analysisRuns[exact_run].analysis, "stored",
                                     exact_run, 0)
               /\ anCalls' = {}
               /\ UNCHANGED <<jiraIssues, jiraEmbeddings, analysisRuns,
                              _JIRA_ANALYZE_JOBS, _JIRA_ANALYZE_JOB_BY_IDEM>>
          ELSE IF last_run # 0 /\ analysisRuns[last_run].analysis # 0
          THEN \* lines 621-638
               /\ anResp' = Response(200, "CACHED", analysisRuns[last_run].analysis, "stored",
                                     last_run, 0)
               /\ anCalls' = {}
               /\ UNCHANGED <<jiraIssues, jiraEmbeddings, analysisRuns,
                              _JIRA_ANALYZE_JOBS, _JIRA_ANALYZE_JOB_BY_IDEM>>
          ELSE IF st \in {"PROCESSING", "COMPLETED"}
          THEN \* lines 648-671
               /\ anResp' = Response(200, st, _JIRA_ANALYZE_JOBS[prev_job_id].analysis, "job",
                                     0, prev_job_id)
               /\ anCalls' = {}
               /\ UNCHANGED <<jiraIssues, jiraEmbeddings, analysisRuns,
                              _JIRA_ANALYZE_JOBS, _JIRA_ANALYZE_JOB_BY_IDEM>>
          ELSE IF ~intake.ok
          THEN \* line 689 raises, nothing was committed
               /\ anResp' = InternalServerError
               /\ anCalls' = {"intake_issue_from_user_input"}
               /\ UNCHANGED <<jiraIssues, jiraEmbeddings, analysisRuns,
                              _JIRA_ANALYZE_JOBS, _JIRA_ANALYZE_JOB_BY_IDEM>>
          ELSE /\ jiraIssues' = intake.issues
               /\ jiraEmbeddings' = intake.embeddings
               /\ IF ~out_report.ok
                  THEN \* line 708 raises after the upsert was committed
                       /\ anResp' = InternalServerError
                       /\ anCalls' = {"intake_issue_from_user_input", "run_syscros_swarm"}
                       /\ UNCHANGED <<analysisRuns, _JIRA_ANALYZE_JOBS,
                                      _JIRA_ANALYZE_JOB_BY_IDEM>>
                  ELSE IF req.analysis_mode = "skip"
                  THEN \* lines 778-789
                       /\ anResp' = Response(200, "SKIPPED", 0, "computed", 0, 0)
                       /\ anCalls' = {"intake_issue_from_user_input", "run_syscros_swarm"}
                       /\ UNCHANGED <<analysisRuns, _JIRA_ANALYZE_JOBS,
                                      _JIRA_ANALYZE_JOB_BY_IDEM>>
                  ELSE IF req.analysis_mode = "sync"
                  THEN \* lines 791-815, with the save of swarm.py:311-326
                       /\ anResp' = Response(200, "COMPLETED", AnalysisText, "computed", 0, 0)
                       /\ anCalls' = {"intake_issue_from_user_input", "run_syscros_swarm",
                                       "subagent"}
                                      \cup (IF req.save_run THEN {"save_analysis_run"} ELSE {})
                       /\ analysisRuns' = saved
                       /\ UNCHANGED <<_JIRA_ANALYZE_JOBS, _JIRA_ANALYZE_JOB_BY_IDEM>>
                  ELSE \* lines 817-887
                       /\ _JIRA_ANALYZE_JOB_BY_IDEM' =
                            {m \in _JIRA_ANALYZE_JOB_BY_IDEM : m.idempotency_key # idem}
                            \cup {[idempotency_key |-> idem, job_id |-> job_id]}
                       /\ _JIRA_ANALYZE_JOBS' =
                            Append(_JIRA_ANALYZE_JOBS,
                                   [status |-> "PROCESSING", issue_key |-> key, analysis |-> 0,
                                    idempotency_key |-> idem])
                       /\ anResp' = Response(200, "PROCESSING", 0, "computed", 0, job_id)
                       /\ anCalls' = {"intake_issue_from_user_input", "run_syscros_swarm",
                                       "create_task"}
                       /\ UNCHANGED analysisRuns
    /\ UNCHANGED <<envVars, swarmVars, fsVars, searchVars, llmVars, callVars>>

\* a call of jira_tools.save_analysis_run by a run that reached its end, the
\* only writer of jira_analysis_runs; the table outlives the process and its
\* older rows have no idempotency key (the migration of main.py:93-111)
SaveAnalysisRun(issue_key, idem, analysis) ==
    /\ anCount < MaxRequests
    /\ Len(analysisRuns) < MaxRuns
    /\ anCount' = anCount + 1
    /\ LET r == save_analysis_run(analysisRuns, issue_key, idem, analysis)
       IN analysisRuns' = r.runs /\ anSaved' = r.out
    /\ UNCHANGED <<jiraIssues, jiraEmbeddings, vocabSize>>
    /\ UNCHANGED <<_JIRA_ANALYZE_JOBS, _JIRA_ANALYZE_JOB_BY_IDEM, anReq, anResp, anCalls>>
    /\ UNCHANGED <<envVars, swarmVars, fsVars, searchVars, llmVars, callVars>>

\* the keys a client of save_analysis_run passes: none, or the key of a request
IdempotencyKeys == {NoIdem} \cup {idempotency_key(req) : req \in AnalyzeRequests}

InitAnalyze ==
    /\ \E present \in {{}, {1}} : jiraIssues = [k \in present |-> IssueRow]
    /\ jiraEmbeddings = [i \in 1..Cardinality(DOMAIN jiraIssues) |->
                            [issue_key |-> i, embedding |-> ListEmbedding(<<1, 1>>)]]
    /\ analysisRuns = <<>>
    /\ vocabSize = 0
    /\ env \in SwarmEnvs
    /\ dbFault = "none"
    /\ SwarmIdle /\ FsIdle /\ SearchIdle /\ LlmIdle /\ AnalyzeIdle /\ CallsIdle

NextAnalyze ==
    \/ \E req \in AnalyzeRequests : JiraAnalyze(req)
    \/ \E issue_key \in 1..2, idem \in IdempotencyKeys, analysis \in 0..1 :
          /\ idem.issue_key \in {0, issue_key}
          /\ SaveAnalysisRun(issue_key, idem, analysis)

SpecAnalyze == InitAnalyze /\ [][NextAnalyze]_vars

\* ------------------------------------ generate_embedding called on its own
\* generate_embedding(text): what the caller gets back
GenerateEmbedding(text) ==
    /\ gePc = "idle"
    /\ gePc' = "done"
    /\ geIn' = text
    /\ geOut' = generate_embedding(env, text)
    /\ UNCHANGED <<storeVars, envVars, swarmVars, fsVars, searchVars, llmVars, analyzeVars>>
    /\ UNCHANGED <<idemVars, saveVars, toolVars, clsVars, cacheVars, prefVars>>

InitEmbed ==
    /\ jiraIssues = <<>> /\ jiraEmbeddings = <<>> /\ analysisRuns = <<>> /\ vocabSize = 0
    /\ env \in EnvSet
    /\ dbFault = "none"
    /\ SwarmIdle /\ FsIdle /\ SearchIdle /\ LlmIdle /\ AnalyzeIdle /\ CallsIdle

NextEmbed == \E text \in 0..2 : GenerateEmbedding(text)

SpecEmbed == InitEmbed /\ [][NextEmbed]_vars

\* --------------------- the idempotency key of /jira/analyze (main.py:570-592)
\* the values a field of JiraAnalyzeRequest takes
FieldValues(f) ==
    CASE f = "issue_key" -> 1..2
      [] f = "summary" -> 1..2
      [] f = "domain" -> {None, "gfx", "GFX"}
      [] f = "component" -> {None, "GFX"}
      [] f = "os" -> {None, "ChromeOS"}
      [] f = "logs" -> {<<>>, <<1, 1, 1>>, <<2, 1, 1>>}
      [] f = "notes" -> {<<>>, <<1>>, <<2, 1>>}
      [] f = "limit" -> {5, 6}
      [] f = "external_knowledge" -> BOOLEAN
      [] f = "min_local_score" -> {DefaultMinLocalScore, 500}
      [] f = "external_max_results" -> {5, 6}
      [] f = "analysis_mode" -> {"async", "sync"}
      [] f = "save_run" -> BOOLEAN

CanonicalFields ==
    {"issue_key", "summary", "domain", "component", "os", "logs", "notes", "limit",
     "external_knowledge", "min_local_score"}
OtherFields == {"external_max_results", "analysis_mode", "save_run"}

\* a first request: the optional fields as the client left them
FirstRequests ==
    {[NoRequest EXCEPT !.issue_key = k, !.summary = s, !.domain = d, !.component = c,
                       !.os = o, !.logs = l, !.notes = n] :
        k \in FieldValues("issue_key"), s \in FieldValues("summary"),
        d \in FieldValues("domain"), c \in FieldValues("component"),
        o \in FieldValues("os"), l \in FieldValues("logs"), n \in FieldValues("notes")}

\* lines 565-592 for a request
ComputeKey(req) ==
    /\ idPc = "idle"
    /\ idPc' = "one"
    /\ idReq' = req
    /\ idKey' = idempotency_key(req)
    /\ UNCHANGED <<idPrevReq, idPrevKey>>
    /\ UNCHANGED <<storeVars, envVars, swarmVars, fsVars, searchVars, llmVars, analyzeVars>>
    /\ UNCHANGED <<embedVars, saveVars, toolVars, clsVars, cacheVars, prefVars>>

\* lines 565-592 for the same request with one field changed
ComputeKeyAgain(f, v) ==
    /\ idPc = "one"
    /\ v # idReq[f]
    /\ idPc' = "two"
    /\ idPrevReq' = idReq
    /\ idPrevKey' = idKey
    /\ idReq' = [idReq EXCEPT ![f] = v]
    /\ idKey' = idempotency_key([idReq EXCEPT ![f] = v])
    /\ UNCHANGED <<storeVars, envVars, swarmVars, fsVars, searchVars, llmVars, analyzeVars>>
    /\ UNCHANGED <<embedVars, saveVars, toolVars, clsVars, cacheVars, prefVars>>

InitIdem ==
    /\ jiraIssues = <<>> /\ jiraEmbeddings = <<>> /\ analysisRuns = <<>> /\ vocabSize = 0
    /\ env \in {e \in SwarmEnvs : e.provider = "mock"}
    /\ dbFault = "none"
    /\ SwarmIdle /\ FsIdle /\ SearchIdle /\ LlmIdle /\ AnalyzeIdle /\ CallsIdle

NextIdem ==
    \/ \E req \in FirstRequests : ComputeKey(req)
    \/ \E f \in CanonicalFields \cup OtherFields : \E v \in FieldValues(f) : ComputeKeyAgain(f, v)

SpecIdem == InitIdem /\ [][NextIdem]_vars

\* ------------------------------- save_analysis_run called by several callers
\* Each call opens its own session (jira_tools.py:575): the SELECT of lines
\* 579-584 and the INSERT and commit of lines 588-599 are two statements, and
\* other sessions run between them. jira_analysis_runs has no unique constraint
\* on (issue_key, idempotency_key) (models/jira_analysis.py:23-26).
SaveKey(issue_key) ==
    idempotency_key(CHOOSE req \in AnalyzeRequests :
                       /\ req.issue_key = issue_key /\ req.summary = 1 /\ req.domain = None
                       /\ req.analysis_mode = "async" /\ req.save_run)

\* lines 571-586: validation and the lookup of an existing row
SaveQuery(c, issue_key, idem, analysis) ==
    /\ savePc[c] = "idle"
    /\ saveArgs' = [saveArgs EXCEPT ![c] = [issue_key |-> issue_key, idempotency_key |-> idem,
                                            analysis |-> analysis]]
    /\ LET existing == IF idem = NoIdem THEN 0 ELSE LastRun(analysisRuns, issue_key, idem, FALSE)
       IN IF issue_key = 0
          THEN /\ savePc' = [savePc EXCEPT ![c] = "done"]
               /\ saveOut' = [saveOut EXCEPT ![c] = Raise("ValueError")]
          ELSE IF existing # 0
          THEN /\ savePc' = [savePc EXCEPT ![c] = "done"]
               /\ saveOut' = [saveOut EXCEPT ![c] = Ok([id |-> existing, idempotent |-> TRUE])]
          ELSE /\ savePc' = [savePc EXCEPT ![c] = "queried"]
               /\ UNCHANGED saveOut
    /\ UNCHANGED <<storeVars, envVars, swarmVars, fsVars, searchVars, llmVars, analyzeVars>>
    /\ UNCHANGED <<embedVars, idemVars, toolVars, clsVars, cacheVars, prefVars>>

\* lines 588-600: db.add(row); db.commit(); db.refresh(row); return
SaveCommit(c) ==
    /\ savePc[c] = "queried"
    /\ analysisRuns' = Append(analysisRuns,
                              [issue_key |-> saveArgs[c].issue_key,
                               idempotency_key |-> saveArgs[c].idempotency_key,
                               analysis |-> saveArgs[c].analysis])
    /\ savePc' = [savePc EXCEPT ![c] = "done"]
    /\ saveOut' = [saveOut EXCEPT ![c] = Ok([id |-> Len(analysisRuns) + 1, idempotent |-> FALSE])]
    /\ UNCHANGED <<jiraIssues, jiraEmbeddings, vocabSize, saveArgs>>
    /\ UNCHANGED <<envVars, swarmVars, fsVars, searchVars, llmVars, analyzeVars>>
    /\ UNCHANGED <<embedVars, idemVars, toolVars, clsVars, cacheVars, prefVars>>

\* the requests that arrive while the callers run
SaveRequests ==
    {req \in AnalyzeRequests : req.domain = None /\ req.analysis_mode = "async" /\ req.save_run}

InitSave ==
    /\ \E present \in {{}, {1}} : jiraIssues = [k \in present |-> IssueRow]
    /\ jiraEmbeddings = [i \in 1..Cardinality(DOMAIN jiraIssues) |->
                            [issue_key |-> i, embedding |-> ListEmbedding(<<1, 1>>)]]
    /\ analysisRuns = <<>>
    /\ vocabSize = 0
    /\ env \in {e \in SwarmEnvs : e.provider = "mock"}
    /\ dbFault = "none"
    /\ SwarmIdle /\ FsIdle /\ SearchIdle /\ LlmIdle /\ AnalyzeIdle /\ CallsIdle

NextSave ==
    \/ \E c \in Callers, issue_key \in 0..2, has_idem \in BOOLEAN :
          SaveQuery(c, issue_key, IF has_idem THEN SaveKey(Max(issue_key, 1)) ELSE NoIdem,
                    AnalysisText)
    \/ \E c \in Callers : SaveCommit(c)
    \/ \E req \in SaveRequests : JiraAnalyze(req)

SpecSave == InitSave /\ [][NextSave]_vars

\* ------------------------------------ the tool search_similar_jira on its own
\* search_similar_jira(ctx, query, limit) as the workflow runner calls it:
\* exclude_issue_keys and include_issue_keys keep their default None
SearchSimilarJira(query, limit) ==
    /\ tlPc = "idle"
    /\ tlPc' = "done"
    /\ tlIn' = [query |-> query, limit |-> limit]
    /\ tlOut' = search_similar_jira(env, jiraIssues, jiraEmbeddings, dbFault,
                                    query, limit, <<>>, NoKeys)
    /\ UNCHANGED <<storeVars, envVars, swarmVars, fsVars, searchVars, llmVars, analyzeVars>>
    /\ UNCHANGED <<embedVars, idemVars, saveVars, clsVars, cacheVars, prefVars>>

InitTool ==
    /\ jiraEmbeddings \in Corpora
    /\ \E missing \in {{}, {2}} : jiraIssues = [k \in (1..MaxCorpus) \ missing |-> IssueRow]
    /\ analysisRuns = <<>>
    /\ vocabSize = 0
    /\ env \in {e \in SwarmEnvs : e.provider = "mock"}
    /\ dbFault = "none"
    /\ SwarmIdle /\ FsIdle /\ SearchIdle /\ LlmIdle /\ AnalyzeIdle /\ CallsIdle

NextTool == \E query \in 1..2, limit \in 1..MaxLimit : SearchSimilarJira(query, limit)

SpecTool == InitTool /\ [][NextTool]_vars

\* ------------------- the domain classifier of prefilter_issue_keys_for_domain
\* A token is 0 when the vocabulary does not hold it, else the id of one of two
\* vocabulary tokens. Domains are numbered in the order of Domains.
RECURSIVE Pow(_, _)
Pow(b, e) == IF e = 0 THEN 1 ELSE b * Pow(b, e - 1)
RECURSIVE Gcd(_, _)
Gcd(a, b) == IF b = 0 THEN a ELSE Gcd(b, a % b)
Lcm(a, b) == (a * b) \div Gcd(a, b)
DomainIds == 1..Len(Domains)
Count(toks, t) == Cardinality({i \in 1..Len(toks) : toks[i] = t})

\* lines 239-273: the counts after training on MinTrainedDocs documents that
\* hold MinVocab distinct tokens between them, all labelled a, or half of them
\* labelled a and half b; token 1 occurs in a document labelled a, token 2 in
\* one labelled b
Trained(a, b) ==
    LET docs == IF a = b THEN MinTrainedDocs ELSE MinTrainedDocs \div 2
        per_doc == MinVocab \div MinTrainedDocs
    IN [label_docs |-> [dd \in DomainIds |-> IF dd \in {a, b} THEN docs ELSE 0],
        label_totals |-> [dd \in DomainIds |-> IF dd \in {a, b} THEN docs * per_doc ELSE 0],
        label_word_counts |->
            [dd \in DomainIds |-> [t \in 1..2 |-> IF (t = 1 /\ dd = a) \/ (t = 2 /\ dd = b)
                                                  THEN 1 ELSE 0]],
        V |-> MinVocab]
TrainingSets == {Trained(a, b) : a \in DomainIds, b \in DomainIds}

\* lines 295-321, in exact arithmetic: exp(scores[dd] - m) / Z is the weight of
\* dd over the sum of the weights, the weight being the smoothed prior times the
\* smoothed likelihood of the known tokens, brought to one denominator; a
\* probability is the pair of its numerator and denominator
_predict_domain(model, toks) ==
    IF toks = <<>> THEN [dd \in DomainIds |-> [num |-> 0, den |-> 1]]
    ELSE LET denom(dd) == model.label_totals[dd] + model.V
             RECURSIVE L(_)
             L(dd) == IF dd = 0 THEN 1 ELSE Lcm(denom(dd), L(dd - 1))
             known == Count(toks, 1) + Count(toks, 2)
             exps(dd) == (model.label_docs[dd] + 1)
                         * Pow(model.label_word_counts[dd][1] + 1, Count(toks, 1))
                         * Pow(model.label_word_counts[dd][2] + 1, Count(toks, 2))
                         * Pow(L(Len(Domains)) \div denom(dd), known)
             RECURSIVE Sum(_)
             Sum(dd) == IF dd = 0 THEN 0 ELSE exps(dd) + Sum(dd - 1)
             Z == IF Sum(Len(Domains)) = 0 THEN 1 ELSE Sum(Len(Domains))
         IN [dd \in DomainIds |-> [num |-> exps(dd), den |-> Z]]

\* probs = _predict_domain(_text_for(it)) (line 328), toks being the tokens of
\* the summary and description of the row
PredictDomain(toks) ==
    /\ clPc = "idle"
    /\ clPc' = "done"
    /\ clIn' = toks
    /\ clOut' = _predict_domain(clModel, toks)
    /\ UNCHANGED clModel
    /\ UNCHANGED <<storeVars, envVars, swarmVars, fsVars, searchVars, llmVars, analyzeVars>>
    /\ UNCHANGED <<embedVars, idemVars, saveVars, toolVars, cacheVars, prefVars>>

Documents == UNION {[1..n -> 0..2] : n \in 0..MaxDocTokens}

InitClassify ==
    /\ jiraIssues = <<>> /\ jiraEmbeddings = <<>> /\ analysisRuns = <<>> /\ vocabSize = MinVocab
    /\ env \in {e \in SwarmEnvs : e.provider = "mock"}
    /\ dbFault = "none"
    /\ SwarmIdle /\ FsIdle /\ SearchIdle /\ LlmIdle /\ AnalyzeIdle
    /\ EmbedIdle /\ IdemIdle /\ SaveIdle /\ ToolIdle /\ CacheIdle /\ PrefIdle
    /\ clModel \in TrainingSets /\ clPc = "idle" /\ clIn = <<>> /\ clOut = <<>>

NextClassify == \E toks \in Documents : PredictDomain(toks)

SpecClassify == InitClassify /\ [][NextClassify]_vars

\* ------------------------------ generate_embedding with its in-process cache
TaskTypes == {"retrieval_document", "retrieval_query"}
\* the provider whose branch of generate_embedding the environment selects
\* (lines 201, 217, 237, 252): the provider named in the cache key
KeyProvider(e) == IF e.provider = "gemini" /\ e.force_mock THEN "mock" ELSE e.provider
\* _cache_key: provider|task_type|model|sha256(text); the model name is fixed by
\* the provider and the environment, and sha256 is taken as injective
_cache_key(provider, task_type, text) == <<provider, task_type, text>>
ThreadKey(r) == _cache_key(KeyProvider(env), r.task, r.text)
\* Where a thread goes once _get_embedding_cache has returned (cache, lock):
\* lines 104-105 and 115-116 skip the cache when either is None.
AfterGetCache(r, cache, lock) ==
    IF cache = 0 \/ lock = 0
    THEN IF r.phase = "get" THEN "provider" ELSE "done"
    ELSE "acquire"

\* generate_embedding(text) is entered; lines 193-203 reach the first
\* _maybe_get_cached_embedding
GeCall(t, text, task_type) ==
    /\ ecThread[t].pc \in {"idle", "done"}
    /\ ecThread[t].calls < MaxCalls
    /\ ecThread' = [ecThread EXCEPT ![t] =
          [IdleThread EXCEPT !.pc = "get_cache", !.text = text, !.task = task_type,
                             !.calls = ecThread[t].calls + 1]]
    /\ UNCHANGED <<_EMBEDDING_CACHE, _EMBEDDING_CACHE_LOCK, ecInstances, ecLocks, ecEnv>>
    /\ UNCHANGED <<storeVars, envVars, swarmVars, fsVars, searchVars, llmVars, analyzeVars>>
    /\ UNCHANGED <<embedVars, idemVars, saveVars, toolVars, clsVars, prefVars>>

\* _get_embedding_cache, lines 73-82: the enabled test, the test of the global
\* against None and the import of cachetools
GetCacheCheck(t) ==
    /\ ecThread[t].pc = "get_cache"
    /\ LET r == ecThread[t]
       IN ecThread' = [ecThread EXCEPT ![t] =
             IF ~ecEnv.enabled
             THEN [r EXCEPT !.cache = 0, !.lock = 0, !.pc = AfterGetCache(r, 0, 0)]
             ELSE IF _EMBEDDING_CACHE # 0 THEN [r EXCEPT !.pc = "return_cache"]
             ELSE IF ~ecEnv.cachetools
             THEN [r EXCEPT !.cache = 0, !.lock = 0, !.pc = AfterGetCache(r, 0, 0)]
             ELSE [r EXCEPT !.pc = "create_cache"]]
    /\ UNCHANGED <<_EMBEDDING_CACHE, _EMBEDDING_CACHE_LOCK, ecInstances, ecLocks, ecEnv>>
    /\ UNCHANGED <<storeVars, envVars, swarmVars, fsVars, searchVars, llmVars, analyzeVars>>
    /\ UNCHANGED <<embedVars, idemVars, saveVars, toolVars, clsVars, prefVars>>

\* line 88: _EMBEDDING_CACHE = TTLCache(maxsize=maxsize, ttl=ttl)
CreateCache(t) ==
    /\ ecThread[t].pc = "create_cache"
    /\ ecInstances' = Append(ecInstances, {})
    /\ _EMBEDDING_CACHE' = Len(ecInstances) + 1
    /\ ecThread' = [ecThread EXCEPT ![t].pc = "create_lock"]
    /\ UNCHANGED <<_EMBEDDING_CACHE_LOCK, ecLocks, ecEnv>>
    /\ UNCHANGED <<storeVars, envVars, swarmVars, fsVars, searchVars, llmVars, analyzeVars>>
    /\ UNCHANGED <<embedVars, idemVars, saveVars, toolVars, clsVars, prefVars>>

\* line 89: _EMBEDDING_CACHE_LOCK = threading.Lock()
CreateLock(t) ==
    /\ ecThread[t].pc = "create_lock"
    /\ ecLocks' = Append(ecLocks, 0)
    /\ _EMBEDDING_CACHE_LOCK' = Len(ecLocks) + 1
    /\ ecThread' = [ecThread EXCEPT ![t].pc = "return_cache"]
    /\ UNCHANGED <<_EMBEDDING_CACHE, ecInstances, ecEnv>>
    /\ UNCHANGED <<storeVars, envVars, swarmVars, fsVars, searchVars, llmVars, analyzeVars>>
    /\ UNCHANGED <<embedVars, idemVars, saveVars, toolVars, clsVars, prefVars>>

\* line 92: return _EMBEDDING_CACHE, _EMBEDDING_CACHE_LOCK, the globals as they
\* are now
ReturnCache(t) ==
    /\ ecThread[t].pc = "return_cache"
    /\ LET r == ecThread[t]
       IN ecThread' = [ecThread EXCEPT ![t] =
             [r EXCEPT !.cache = _EMBEDDING_CACHE, !.lock = _EMBEDDING_CACHE_LOCK,
                       !.pc = AfterGetCache(r, _EMBEDDING_CACHE, _EMBEDDING_CACHE_LOCK)]]
    /\ UNCHANGED <<_EMBEDDING_CACHE, _EMBEDDING_CACHE_LOCK, ecInstances, ecLocks, ecEnv>>
    /\ UNCHANGED <<storeVars, envVars, swarmVars, fsVars, searchVars, llmVars, analyzeVars>>
    /\ UNCHANGED <<embedVars, idemVars, saveVars, toolVars, clsVars, prefVars>>

\* "with lock:" is entered (lines 107 and 119): the thread waits for its lock
Acquire(t) ==
    /\ ecThread[t].pc = "acquire"
    /\ ecLocks[ecThread[t].lock] = 0
    /\ ecLocks' = [ecLocks EXCEPT ![ecThread[t].lock] = t]
    /\ ecThread' = [ecThread EXCEPT ![t].pc = "critical"]
    /\ UNCHANGED <<_EMBEDDING_CACHE, _EMBEDDING_CACHE_LOCK, ecInstances, ecEnv>>
    /\ UNCHANGED <<storeVars, envVars, swarmVars, fsVars, searchVars, llmVars, analyzeVars>>
    /\ UNCHANGED <<embedVars, idemVars, saveVars, toolVars, clsVars, prefVars>>

\* the body of "with lock:" and its exit: cache.get(key) (lines 108-111, a hit
\* returns the vector) or cache[key] = ... (line 120, then the vector is returned)
Access(t) ==
    /\ ecThread[t].pc = "critical"
    /\ LET r == ecThread[t]
           hit == ThreadKey(r) \in ecInstances[r.cache]
       IN IF r.phase = "get"
          THEN /\ ecThread' = [ecThread EXCEPT ![t] =
                     IF hit THEN [r EXCEPT !.lookup = "hit", !.pc = "done",
                                           !.out = generate_embedding(env, r.text)]
                     ELSE [r EXCEPT !.lookup = "miss", !.pc = "provider"]]
               /\ UNCHANGED ecInstances
          ELSE /\ ecInstances' = [ecInstances EXCEPT ![r.cache] = @ \cup {ThreadKey(r)}]
               /\ ecThread' = [ecThread EXCEPT ![t] = [r EXCEPT !.stored = TRUE, !.pc = "done"]]
    /\ ecLocks' = [ecLocks EXCEPT ![ecThread[t].lock] = 0]
    /\ UNCHANGED <<_EMBEDDING_CACHE, _EMBEDDING_CACHE_LOCK, ecEnv>>
    /\ UNCHANGED <<storeVars, envVars, swarmVars, fsVars, searchVars, llmVars, analyzeVars>>
    /\ UNCHANGED <<embedVars, idemVars, saveVars, toolVars, clsVars, prefVars>>

\* the provider returns without a store: the mutation of ProviderCall
ProviderCall_NoStore(t) ==
    /\ ecThread[t].pc = "provider"
    /\ LET r == ecThread[t]
           emb == generate_embedding(env, r.text)
       IN ecThread' = [ecThread EXCEPT ![t] =
             [r EXCEPT !.provider = TRUE, !.out = emb, !.pc = "done"]]
    /\ UNCHANGED <<_EMBEDDING_CACHE, _EMBEDDING_CACHE_LOCK, ecInstances, ecLocks, ecEnv>>
    /\ UNCHANGED <<storeVars, envVars, swarmVars, fsVars, searchVars, llmVars, analyzeVars>>
    /\ UNCHANGED <<embedVars, idemVars, saveVars, toolVars, clsVars, prefVars>>

\* the provider computes the vector (lines 213, 228, 248, 273-278); a mock or
\* SBERT vector is stored whatever it is (lines 214, 229, 249), a Gemini vector
\* when it is a non-empty list (lines 279-286)
ProviderCall(t) ==
    /\ ecThread[t].pc = "provider"
    /\ LET r == ecThread[t]
           emb == generate_embedding(env, r.text)
       IN ecThread' = [ecThread EXCEPT ![t] =
             IF ~emb.ok \/ (emb.val.provider = "gemini" /\ Len(emb.val.vec) = 0)
             THEN [r EXCEPT !.provider = TRUE, !.out = emb, !.pc = "done"]
             ELSE [r EXCEPT !.provider = TRUE, !.out = emb, !.phase = "set",
                            !.pc = "get_cache"]]
    /\ UNCHANGED <<_EMBEDDING_CACHE, _EMBEDDING_CACHE_LOCK, ecInstances, ecLocks, ecEnv>>
    /\ UNCHANGED <<storeVars, envVars, swarmVars, fsVars, searchVars, llmVars, analyzeVars>>
    /\ UNCHANGED <<embedVars, idemVars, saveVars, toolVars, clsVars, prefVars>>

CacheEnvs ==
    {e \in EnvSet : /\ ~e.force_mock /\ e.sbert_installed
                    /\ \/ e.provider = "mock" /\ ~e.api_key /\ e.gemini = "ok"
                       \/ e.provider = "gemini" /\ e.api_key}

InitCache ==
    /\ jiraIssues = <<>> /\ jiraEmbeddings = <<>> /\ analysisRuns = <<>> /\ vocabSize = 0
    /\ env \in CacheEnvs
    /\ dbFault = "none"
    /\ SwarmIdle /\ FsIdle /\ SearchIdle /\ LlmIdle /\ AnalyzeIdle
    /\ EmbedIdle /\ IdemIdle /\ SaveIdle /\ ToolIdle /\ ClsIdle /\ PrefIdle
    /\ _EMBEDDING_CACHE = 0 /\ _EMBEDDING_CACHE_LOCK = 0
    /\ ecInstances = <<>> /\ ecLocks = <<>>
    /\ ecEnv \in [enabled : BOOLEAN, cachetools : BOOLEAN]
    /\ ecThread = [t \in Threads |-> IdleThread]

GeStep(t) ==
    \/ \E text \in 1..2, task_type \in TaskTypes : GeCall(t, text, task_type)
    \/ GetCacheCheck(t)
    \/ CreateCache(t)
    \/ CreateLock(t)
    \/ ReturnCache(t)
    \/ Acquire(t)
    \/ Access(t)
    \/ ProviderCall(t)

\* any interleaving of the threads
NextCache == \E t \in Threads : GeStep(t)
SpecCache == InitCache /\ [][NextCache]_vars

\* one caller, one call after another
NextCacheSeq == GeStep(1)
SpecCacheSeq == InitCache /\ [][NextCacheSeq]_vars

\* ------------------------- prefilter_issue_keys_for_domain, row by row
\* A row of the query of lines 210-214: its key (0 the empty string; lower
\* when stored in lower case), whether the keywords of the domain hit its
\* components and labels (match), and whether the trained classifier gives the
\* domain a probability of at least 0.35 (ml). Every row has a tokenised
\* summary, and a row the keywords hit has a weak label.
PrefRows == {r \in [issue_key : 0..2, lower : BOOLEAN, match : BOOLEAN, ml : BOOLEAN] :
                r.lower => r.issue_key = 1}

\* str(issue_key or "").strip().upper(), lines 222 and 337
UpperKey(r) == r.issue_key

\* the merge keeps every occurrence: the mutation of FirstSeen
FirstSeen_KeepAll(s) == SelectSeq(s, LAMBDA k : k # 0)
\* the first occurrences of s, in order (lines 334-341)
FirstSeen(s) ==
    LET RECURSIVE F(_)
        F(n) == IF n = 0 THEN <<>>
                ELSE LET front == F(n - 1)
                     IN IF s[n] = 0 \/ s[n] \in SeqToSet(front) THEN front
                        ELSE Append(front, s[n])
    IN F(Len(s))

\* too little training signal only when both thresholds are missed: the
\* mutation of WeakSignal
WeakSignal_Both(trained_docs, vocab) == trained_docs < MinTrainedDocs /\ vocab < MinVocab
\* line 277: if trained_docs < 10 or len(vocab) < 50
WeakSignal(trained_docs, vocab) == trained_docs < MinTrainedDocs \/ vocab < MinVocab

KeysOf(rows) == [i \in 1..Len(rows) |-> UpperKey(rows[i])]

\* lines 200-351. others counts the rows that carry the weak label of some
\* other domain, which the keywords of this domain and the classifier both miss.
DomainPrefilter(items, others, vocab, domain) ==
    LET d == _normalize_domain(domain)
    IN IF d = None
       THEN [domain |-> None, issue_keys |-> NoKeys, reason |-> "no_domain",
             component_hits |-> None, ml_hits |-> None, trained_docs |-> None,
             vocab |-> None]
       ELSE IF d \notin SeqToSet(Domains)
       THEN [domain |-> d, issue_keys |-> NoKeys, reason |-> "unknown_domain",
             component_hits |-> None, ml_hits |-> None, trained_docs |-> None,
             vocab |-> None]
       ELSE LET component_hits ==
                    KeysOf(SelectSeq(items, LAMBDA r : UpperKey(r) # 0 /\ r.match))
                trained_docs == others + Len(SelectSeq(items, LAMBDA r : r.match))
                ml_hits == KeysOf(SelectSeq(items, LAMBDA r : UpperKey(r) # 0 /\ r.ml))
            IN IF WeakSignal(trained_docs, vocab)
               THEN [domain |-> d,
                     issue_keys |-> OrNone(SortedKeys(SeqToSet(component_hits))),
                     reason |-> "weak_training_signal",
                     component_hits |-> Len(component_hits), ml_hits |-> None,
                     trained_docs |-> trained_docs, vocab |-> None]
               ELSE [domain |-> d,
                     issue_keys |-> OrNone(FirstSeen(component_hits \o ml_hits)),
                     reason |-> "component_and_ml",
                     component_hits |-> Len(component_hits), ml_hits |-> Len(ml_hits),
                     trained_docs |-> trained_docs, vocab |-> vocab]

\* the corpora: up to MaxRows rows in the order the query returns them, no two
\* with the same stored key
PrefCorpora ==
    {items \in UNION {[1..n -> PrefRows] : n \in 0..MaxRows} :
        \A i, j \in 1..Len(items) :
            i # j => <<items[i].issue_key, items[i].lower>> # <<items[j].issue_key, items[j].lower>>}

PrefInputs ==
    {in \in [items : PrefCorpora,
             others : {MinTrainedDocs - 2, MinTrainedDocs},
             vocab : {MinVocab - 1, MinVocab},
             domain : {None, "GFX", "kernel"}] :
        in.domain # "GFX" => (in.others = MinTrainedDocs /\ in.vocab = MinVocab /\ Len(in.items) <= 1)}

PrefilterIssueKeysForDomain ==
    /\ pfPc = "idle"
    /\ pfOut' = Ok(DomainPrefilter(pfIn.items, pfIn.others, pfIn.vocab, pfIn.domain))
    /\ pfPc' = "done"
    /\ UNCHANGED pfIn
    /\ UNCHANGED <<storeVars, envVars, swarmVars, fsVars, searchVars, llmVars, analyzeVars>>
    /\ UNCHANGED <<embedVars, idemVars, saveVars, toolVars, clsVars, cacheVars>>

InitPrefilter ==
    /\ jiraIssues = <<>> /\ jiraEmbeddings = <<>> /\ analysisRuns = <<>> /\ vocabSize = 0
    /\ env \in {e \in SwarmEnvs : e.provider = "mock"}
    /\ dbFault = "none"
    /\ SwarmIdle /\ FsIdle /\ SearchIdle /\ LlmIdle /\ AnalyzeIdle
    /\ EmbedIdle /\ IdemIdle /\ SaveIdle /\ ToolIdle /\ ClsIdle /\ CacheIdle
    /\ pfPc = "idle" /\ pfIn \in PrefInputs /\ pfOut = NotCalled

NextPrefilter == PrefilterIssueKeysForDomain
SpecPrefilter == InitPrefilter /\ [][NextPrefilter]_vars

\* ============================================================== properties
IssueFetched == futIssue.state = "done" /\ futIssue.ok
IssueFetchFailed == futIssue.state = "done" /\ ~futIssue.ok
LogsExtracted == futLogs.state = "done" /\ futLogs.ok
LogsFailed == futLogs.state = "done" /\ ~futLogs.ok
SwarmQuery == QueryText(swIn.issue_key, swIn.logs # "none")
QueryEmbedded == generate_embedding(env, SwarmQuery).ok

\* the collaborators of the stages after stage 1
LaterStageCalls ==
    {"prefilter_issue_keys_for_component", "prefilter_issue_keys_for_domain",
     "search_similar_jira", "web_search", "render_syscros_issue_summary_report",
     "subagent", "save_analysis_run"}

\* the top score the similarity search gives for the run's query on the store
LocalTopScore ==
    LET results == find_similar_jira(jiraIssues, jiraEmbeddings, dbFault,
                       generate_embedding(env, SwarmQuery).val.vec, swIn.limit,
                       <<swIn.issue_key>>)
    IN _top_similarity([results |-> results])

\* C3: in every run that got past stage 1 with an embedded query, web_search is
\* invoked if and only if external_knowledge is enabled and the top similarity
\* score is strictly below min_local_score.
C3_ExternalIffWeakLocalScore ==
    (swPc = "failed" /\ IssueFetched /\ LogsExtracted /\ QueryEmbedded)
        => (("web_search" \in swCalls)
              <=> (swIn.external_knowledge /\ LocalTopScore < swIn.min_local_score))

\* C4: a run whose issue fetch succeeded and whose log-signal extraction
\* failed does not fail at the stage-1 join: it goes on to the similarity stage.
C4_LogFailureIsNotFatal ==
    (IssueFetched /\ LogsFailed /\ swPc = "failed") => futSim.state # "none"

\* C5: when the issue fetch fails the run fails with that error and no later
\* stage is started (no prefilter, search, external call, report, analysis, save).
C5_IssueFetchFailureShortCircuits ==
    IssueFetchFailed =>
        /\ swPc \in {"stage1", "unwind", "failed"}
        /\ futSim.state = "none"
        /\ swCalls \cap LaterStageCalls = {}
        /\ ctxSteps \subseteq {"log_signals"}
        /\ swPc = "failed" => swError = futIssue.err

C5_Witness ==
    /\ swPc = "failed" /\ IssueFetchFailed /\ swError = "ValueError"
    /\ swIn.issue_key = NumIssues + 1 /\ LogsExtracted

\* C7: a similarity search given an include-key set completes, and every key it
\* returns is in that set.
C7_IncludeSearchCompletes ==
    (futSim.state = "done" /\ swInclude.some /\ QueryEmbedded)
        => /\ futSim.ok
           /\ \A i \in 1..Len(swSimilar) : swSimilar[i].issue_key \in SeqToSet(swInclude.keys)

\* the keys a component hint selects, and the keys a domain hint selects
ComponentYield ==
    {k \in DOMAIN jiraIssues :
        \E x \in jiraIssues[k].components : Lower(x) = Lower(swIn.component)}
DomainYield ==
    LET d == _normalize_domain(swIn.domain)
        trained == /\ Cardinality({k \in DOMAIN jiraIssues : jiraIssues[k].kw # {}}) >= MinTrainedDocs
                   /\ vocabSize >= MinVocab
    IN {k \in DOMAIN jiraIssues :
            d \in jiraIssues[k].kw \/ (trained /\ d \in jiraIssues[k].ml)}
ComponentPoolUsable ==
    /\ swIn.component # None /\ dbFault # "component"
    /\ Cardinality(ComponentYield) >= MinPrefilterPool
DomainPoolUsable ==
    /\ swIn.domain # None /\ dbFault # "domain"
    /\ _normalize_domain(swIn.domain) \in SeqToSet(Domains)
    /\ Cardinality(DomainYield) >= MinPrefilterPool
ExactlyKeys(include, S) ==
    include.some /\ SeqToSet(include.keys) = S /\ Len(include.keys) = Cardinality(S)

\* C9: the include_issue_keys of the similarity stage are the component
\* prefilter's keys when a component hint yields at least 10 keys (the domain
\* prefilter is then not used), else the domain prefilter's keys when a domain
\* hint yields at least 10 keys, else None (unrestricted).
C9_GraduatedPoolSelection ==
    futSim.state = "done" =>
        IF ComponentPoolUsable
        THEN /\ ExactlyKeys(swInclude, ComponentYield)
             /\ "prefilter_issue_keys_for_domain" \notin swCalls
        ELSE IF DomainPoolUsable
        THEN ExactlyKeys(swInclude, DomainYield)
        ELSE swInclude = NoKeys

C9_Witness ==
    /\ futSim.state = "done" /\ swIn.component # None /\ swIn.domain # None
    /\ DomainPoolUsable
    /\ swInclude.some /\ Len(swInclude.keys) = MinPrefilterPool
    /\ SeqToSet(swInclude.keys) = ComponentYield

\* the rows find_similar_jira can score for its query, excluded or not
Comparable ==
    {i \in 1..Len(jiraEmbeddings) :
        /\ jiraEmbeddings[i].embedding.is_list
        /\ Len(jiraEmbeddings[i].embedding.vec) = Len(fsIn.query_embedding)
        /\ jiraEmbeddings[i].issue_key # 0}
FsExcluded == SeqToSet(fsIn.exclude_issue_keys)
Candidates == {i \in Comparable : jiraEmbeddings[i].issue_key \notin FsExcluded}
RowScore(i) == cosine_similarity(fsIn.query_embedding, jiraEmbeddings[i].embedding.vec)
\* row j is ranked before row i
Outranks(j, i) == RowScore(j) > RowScore(i) \/ (RowScore(j) = RowScore(i) /\ j < i)
FsKeys == {fsOut[n].issue_key : n \in 1..Len(fsOut)}

\* C8: find_similar_jira returns no excluded key, and an excluded key takes no
\* result slot: a candidate that is not excluded, has an issue row and has
\* fewer than limit non-excluded candidates ranked before it is returned.
C8_ExcludedNeverReturned ==
    fsPc = "done" =>
        /\ FsKeys \cap FsExcluded = {}
        /\ (dbFault = "none" /\ Len(fsIn.query_embedding) > 0) =>
              \A i \in Candidates :
                  (/\ Cardinality({j \in Candidates : Outranks(j, i)}) < fsIn.limit
                   /\ jiraEmbeddings[i].issue_key \in DOMAIN jiraIssues)
                      => jiraEmbeddings[i].issue_key \in FsKeys

\* an excluded row outranks every returned row, and limit rows are returned
C8_Witness ==
    /\ fsPc = "done" /\ fsIn.limit >= 1 /\ Len(fsOut) = fsIn.limit
    /\ \E x \in Comparable \ Candidates :
          \A i \in Candidates : Outranks(x, i)

\* C10: the vector a search uses comes from the configured provider; when
\* generate_embedding fails for the configuration the request fails and no
\* vector of another provider is used for the search.
ConfiguredProvider(e) ==
    IF e.provider = "gemini" /\ e.force_mock THEN "mock" ELSE e.provider
C10_NoImplicitProviderFallback ==
    searchResp.status # 0 =>
        IF generate_embedding(env, searchReq.query).ok
        THEN searchResp.used.provider = ConfiguredProvider(env)
        ELSE searchResp.status = 500 /\ searchResp.used = NoVector


\* C6: once the timeout has elapsed with the LLM call still in flight,
\* subagent is not held back by that call: it is never waiting at the exit of
\* the executor for a call that has not finished.
C6_TimeoutReturnsWithoutWaiting ==
    (llPc = "shutdown_wait") => (llWorker # "running")

\* C2: a CACHED answer of /jira/analyze returns a stored run that carries
\* exactly the idempotency key computed from the request it answers.
C2_CacheHitOnlyForExactKey ==
    (anResp.analysis_status = "CACHED") =>
        (analysisRuns[anResp.run].idempotency_key = idempotency_key(anReq))

\* C11: a vector that generate_embedding returns to its caller is never of
\* length zero.
C11_NeverReturnsEmptyVector ==
    (gePc = "done" /\ geOut.ok) => (Len(geOut.val.vec) > 0)

\* C12 as stated: equal canonical inputs get equal keys, and changing any one
\* canonical input as the client sent it (domain, component, OS, logs, notes,
\* ...) yields a different key; the other fields never change the key.
SameInputs(r1, r2) == \A f \in CanonicalFields : r1[f] = r2[f]
C12_KeyChangesWithAnyCanonicalInput ==
    (idPc = "two") => ((idKey = idPrevKey) <=> SameInputs(idReq, idPrevReq))

\* C12 amended: the key is a function of the canonical inputs as the handler
\* normalises them: domain, component and OS compared without case, logs by
\* their last 40000 characters and notes by their last 20000.
Normalised(req, f) ==
    CASE f \in {"domain", "component", "os"} -> IF req[f] = None THEN "" ELSE Lower(req[f])
      [] f = "logs" -> IF Len(req.logs) > 2 THEN Tail(req.logs) ELSE req.logs
      [] f = "notes" -> IF Len(req.notes) > 1 THEN Tail(req.notes) ELSE req.notes
      [] OTHER -> req[f]
SameNormalisedInputs(r1, r2) == \A f \in CanonicalFields : Normalised(r1, f) = Normalised(r2, f)
C12_KeyIsFunctionOfNormalisedInputs ==
    (idPc = "two") => ((idKey = idPrevKey) <=> SameNormalisedInputs(idReq, idPrevReq))
\* two requests whose logs differ only before the last 40000 characters
C12_Witness ==
    /\ idPc = "two"
    /\ idReq.logs # idPrevReq.logs
    /\ idKey = idPrevKey

\* C13: a request answered from a stored run with its own idempotency key
\* gets the stored analysis without a new analysis call, and a report that
\* was computed again for this request, not the report stored with the run.
C13_CachedAnalysisFreshReport ==
    (/\ anResp.analysis_status = "CACHED"
     /\ analysisRuns[anResp.run].idempotency_key = idempotency_key(anReq))
    => (/\ "subagent" \notin anCalls
        /\ "run_syscros_swarm" \in anCalls
        /\ anResp.report = "computed")

\* the handler answered from the cache and touched nothing else
AnsweredFromCache(run) ==
    /\ anResp'.status = 200
    /\ anResp'.analysis_status = "CACHED"
    /\ anResp'.run = run
    /\ anResp'.analysis = analysisRuns[run].analysis
    /\ anCalls' = {}
    /\ UNCHANGED <<jiraIssues, jiraEmbeddings, analysisRuns,
                   _JIRA_ANALYZE_JOBS, _JIRA_ANALYZE_JOB_BY_IDEM>>

\* the issue is stored with the summary of the request
IssueMatches(req) ==
    /\ req.issue_key \in DOMAIN jiraIssues
    /\ jiraIssues[req.issue_key].summary = req.summary

\* runs of the issue of the request that carry a non-empty analysis
RunsWithAnalysis(req) ==
    {i \in 1..Len(analysisRuns) : /\ analysisRuns[i].issue_key = req.issue_key
                                  /\ analysisRuns[i].analysis # 0}

NewestOfIssue(req) ==
    {i \in 1..Len(analysisRuns) :
        /\ analysisRuns[i].issue_key = req.issue_key
        /\ \A j \in (i + 1)..Len(analysisRuns) : analysisRuns[j].issue_key # req.issue_key}
NewestOfKey(req) ==
    {i \in 1..Len(analysisRuns) :
        /\ analysisRuns[i].issue_key = req.issue_key
        /\ analysisRuns[i].idempotency_key = idempotency_key(req)
        /\ \A j \in (i + 1)..Len(analysisRuns) :
              ~(/\ analysisRuns[j].issue_key = req.issue_key
                /\ analysisRuns[j].idempotency_key = idempotency_key(req))}

C15_OneRowPerIdempotencyKey ==
    \A i, j \in 1..Len(analysisRuns) :
        (/\ analysisRuns[i].idempotency_key # NoIdem
         /\ analysisRuns[i].issue_key = analysisRuns[j].issue_key
         /\ analysisRuns[i].idempotency_key = analysisRuns[j].idempotency_key)
        => i = j

\* C17: subagent never raises; when the LLM is disabled, the API key or the
\* dependency is missing, the client or model cannot be constructed, or the
\* LLM call raises, it returns the offline fallback naming the reason.
C17_SubagentNeverRaises ==
    /\ llPc # "raised"
    /\ (/\ llPc = "returned"
        /\ (~llEnv.enabled \/ ~llEnv.api_key \/ ~llEnv.deps \/ llWorker = "raised"))
       => (llOut.kind = "offline" /\ llOut.reason # None)

\* the row of jira_embeddings that holds a returned key
RowOf(k) == CHOOSE i \in 1..Len(jiraEmbeddings) : jiraEmbeddings[i].issue_key = k

\* C18: find_similar_jira returns at most limit entries, each with the cosine
\* similarity of its row, ordered by non-increasing similarity with equal
\* scores in the order of the rows of the corpus, and it returns the empty
\* list when the corpus or the pool of eligible candidates is empty.
C18_AtMostLimitOrderedByScore ==
    fsPc = "done" =>
        /\ Len(fsOut) <= fsIn.limit
        /\ \A n \in 1..Len(fsOut) :
              /\ RowOf(fsOut[n].issue_key) \in Candidates
              /\ fsOut[n].similarity = RowScore(RowOf(fsOut[n].issue_key))
        /\ \A m, n \in 1..Len(fsOut) :
              m < n => Outranks(RowOf(fsOut[m].issue_key), RowOf(fsOut[n].issue_key))
        /\ (jiraEmbeddings = <<>> \/ Candidates = {}) => fsOut = <<>>

\* three candidates, the limit cuts one off, and the two returned have equal scores
C18_Witness ==
    /\ fsPc = "done" /\ fsIn.limit = 2 /\ Len(fsOut) = 2
    /\ Cardinality(Candidates) = 3
    /\ fsOut[1].similarity = fsOut[2].similarity
    /\ \E i \in Candidates : RowScore(i) < fsOut[2].similarity

\* the stored rows the query of the tool call can be compared with: a list
\* embedding of the query's dimensionality, a key, and an issue row for the key
ToolMatches ==
    {i \in 1..Len(jiraEmbeddings) :
        /\ jiraEmbeddings[i].embedding.is_list
        /\ Len(jiraEmbeddings[i].embedding.vec) = Len(generate_embedding(env, tlIn.query).val.vec)
        /\ jiraEmbeddings[i].issue_key \in DOMAIN jiraIssues}

\* C19: search_similar_jira called with a query, a limit of at least 1 and no
\* include or exclude keys, over a store that holds an issue with an embedding
\* of the query's dimensionality, completes without error and returns
\* results_count >= 1.
C19_ToolSearchReturnsStoredDocument ==
    (tlPc = "done" /\ tlIn.limit >= 1 /\ ToolMatches # {})
        => (tlOut.ok /\ tlOut.val.results_count >= 1)

\* the sum of the numerators of the probabilities returned, over their
\* common denominator
RECURSIVE ProbNumerators(_)
ProbNumerators(dd) == IF dd = 0 THEN 0 ELSE clOut[dd].num + ProbNumerators(dd - 1)

\* C20: for every document scored by the classifier, a document without
\* tokens included, the probabilities returned sum to 1 across the domains.
C20_ProbabilitiesSumToOne ==
    clPc = "done" => ProbNumerators(Len(Domains)) = clOut[1].den

\* C21: a run given a malformed issue key (empty, or not of the issue-key
\* format) fails with an invalid-input error before any collaborator is
\* invoked: no stage-1 task is submitted and no tool is called.
C21_MalformedKeyRejectedAtInit ==
    (swPc # "idle" /\ ~JIRA_ISSUE_KEY_RE(swIn.issue_key))
        => /\ swPc = "failed" /\ swError = "ValueError"
           /\ futIssue.state = "none" /\ futLogs.state = "none"
           /\ swCalls = {}

\* C22: the similarity stage is submitted only after both stage-1 tasks have
\* completed, the main thread goes past the similarity join (to the fallback
\* check) only after the similarity task has completed, and no collaborator of
\* the fallback or aggregation stages is called before that join.
C22_StagesForkJoin ==
    /\ futSim.state # "none" => (IssueFetched /\ LogsExtracted)
    /\ ("search_similar_jira" \in swCalls \/ swInclude.some) => (IssueFetched /\ LogsExtracted)
    /\ (swPc \notin {"idle", "stage1", "unwind", "join_logs", "stage2"} /\ futSim.state # "none")
          => futSim.state = "done"
    /\ (swCalls \cap {"web_search", "render_syscros_issue_summary_report", "subagent",
                      "save_analysis_run"} # {})
          => (futSim.state = "done" /\ swPc \notin {"stage1", "unwind", "join_logs", "stage2"})

\* the similarity task is in flight, after an issue fetch and a log extraction
\* that both did work
C22_Witness ==
    /\ swPc = "stage2" /\ futSim.state = "pending"
    /\ "get_issue_from_db" \in swCalls /\ "extract_error_signals" \in swCalls
    /\ "issue" \in ctxSteps /\ "log_signals" \in ctxSteps

\* C23: ctx["steps"] is written only at join points: no step writes it while a
\* stage task is in flight, be it the writer's own task, whose future has not
\* resolved yet, or another task of the run.
C23_ContextWrittenOnlyAtJoins ==
    [][(ctxSteps' # ctxSteps)
          => (/\ futIssue.state # "pending"
              /\ futLogs.state # "pending"
              /\ futSim.state # "pending")]_vars

\* C24: at most one cache instance and one lock are ever created, and no two
\* threads are inside the cache at the same time.
C24_OneCacheOneLockExclusiveAccess ==
    /\ Len(ecInstances) <= 1
    /\ Len(ecLocks) <= 1
    /\ \A t, u \in Threads :
          (/\ t # u
           /\ ecThread[t].pc = "critical" /\ ecThread[u].pc = "critical"
           /\ ecThread[t].cache = ecThread[u].cache) => FALSE

\* what a finished or running call of a thread shows when the cache is in use
\* (inUse) and when it is not
CacheOrder(r, inUse) ==
    /\ r.provider => r.lookup = (IF inUse THEN "miss" ELSE "none")
    /\ (inUse /\ r.pc = "done" /\ r.provider /\ r.out.ok)
          => (Len(r.out.val.vec) > 0
                => /\ r.stored
                   /\ _EMBEDDING_CACHE # 0
                   /\ ThreadKey(r) \in ecInstances[_EMBEDDING_CACHE])
    /\ ~inUse => /\ r.lookup = "none" /\ ~r.stored
                 /\ \A i \in DOMAIN ecInstances : ecInstances[i] = {}
                 /\ (r.pc = "done" => r.provider)

PrefDone == pfPc = "done" /\ _normalize_domain(pfIn.domain) \in SeqToSet(Domains)
\* the keys of the rows the keywords hit, and of those the classifier accepts
KeywordKeys == {r.issue_key : r \in {x \in SeqToSet(pfIn.items) : x.match /\ x.issue_key # 0}}
ClassifierKeys == {r.issue_key : r \in {x \in SeqToSet(pfIn.items) : x.ml /\ x.issue_key # 0}}
\* the weak-labelled training documents of the corpus
TrainingDocs == pfIn.others + Cardinality({i \in 1..Len(pfIn.items) : pfIn.items[i].match})
ReturnedKeys == pfOut.val.issue_keys.keys

\* C26: training is skipped exactly when fewer than 10 training documents or
\* fewer than 50 vocabulary tokens exist; the result then holds exactly the
\* keyword hits with reason weak_training_signal, and otherwise has reason
\* component_and_ml and reports the keyword-hit count, the classifier-hit count
\* and the training-set size.
C26_WeakSignalSkipsClassifier ==
    PrefDone =>
        LET out == pfOut.val
            weak == TrainingDocs < MinTrainedDocs \/ pfIn.vocab < MinVocab
        IN /\ (out.reason = "weak_training_signal") <=> weak
           /\ weak => /\ SeqToSet(ReturnedKeys) = KeywordKeys
                      /\ out.ml_hits = None
           /\ ~weak => /\ out.reason = "component_and_ml"
                       /\ out.component_hits =
                            Cardinality({i \in 1..Len(pfIn.items) :
                                pfIn.items[i].match /\ pfIn.items[i].issue_key # 0})
                       /\ out.ml_hits =
                            Cardinality({i \in 1..Len(pfIn.items) :
                                pfIn.items[i].ml /\ pfIn.items[i].issue_key # 0})
                       /\ out.trained_docs = TrainingDocs

\* training was skipped for the vocabulary alone, with a row only the classifier
\* would have added
C26_Witness ==
    /\ PrefDone /\ pfOut.val.reason = "weak_training_signal"
    /\ TrainingDocs >= MinTrainedDocs /\ pfIn.vocab < MinVocab
    /\ KeywordKeys # {} /\ ClassifierKeys \ KeywordKeys # {}

\* the place of a key's first row among the rows of the corpus that have the mark
\* ("match" or "ml")
FirstRow(k, mark) ==
    CHOOSE i \in 1..Len(pfIn.items) :
        /\ pfIn.items[i].issue_key = k /\ pfIn.items[i][mark]
        /\ \A j \in 1..(i - 1) : ~(pfIn.items[j].issue_key = k /\ pfIn.items[j][mark])
NoDuplicateKey(ks) == \A i, j \in 1..Len(ks) : i # j => ks[i] # ks[j]
\* ks holds the keyword hits in corpus order, then the keys of classifierKeys the
\* keywords missed, in corpus order
MergePolicy(ks, classifierKeys) ==
    /\ SeqToSet(ks) = KeywordKeys \cup classifierKeys
    /\ \A i, j \in 1..Len(ks) :
          i < j =>
            \/ ks[i] \in KeywordKeys /\ ks[j] \notin KeywordKeys
            \/ /\ ks[i] \in KeywordKeys /\ ks[j] \in KeywordKeys
               /\ FirstRow(ks[i], "match") < FirstRow(ks[j], "match")
            \/ /\ ks[i] \notin KeywordKeys /\ ks[j] \notin KeywordKeys
               /\ FirstRow(ks[i], "ml") < FirstRow(ks[j], "ml")

\* C27 (as stated): every returned key list has no duplicate and follows the
\* merge policy, keyword hits first in corpus order and classifier-only hits
\* after them in corpus order, also when training was skipped.
C27_MergePolicyInBothBranches ==
    PrefDone =>
        /\ NoDuplicateKey(ReturnedKeys)
        /\ MergePolicy(ReturnedKeys,
              IF pfOut.val.reason = "component_and_ml" THEN ClassifierKeys ELSE {})

\* C27 (amended): no returned key list has a duplicate; when the classifier was
\* trained the list follows the merge policy, and when training was skipped it
\* holds the keyword hits in ascending key order.
C27_MergePolicyWhenTrainedSortedWhenWeak ==
    PrefDone =>
        /\ NoDuplicateKey(ReturnedKeys)
        /\ pfOut.val.reason = "component_and_ml" => MergePolicy(ReturnedKeys, ClassifierKeys)
        /\ pfOut.val.reason = "weak_training_signal" =>
              /\ SeqToSet(ReturnedKeys) = KeywordKeys
              /\ \A i, j \in 1..Len(ReturnedKeys) : i < j => ReturnedKeys[i] < ReturnedKeys[j]

\* a trained run whose corpus is not in key order and names one key in two rows:
\* the keyword hit 2 comes before the classifier-only hit 1, once
C27_Witness ==
    /\ PrefDone /\ pfOut.val.reason = "component_and_ml"
    /\ ReturnedKeys = <<2, 1>>
    /\ Len(pfIn.items) = 3
    /\ \E i, j \in 1..3 : i # j /\ pfIn.items[i].issue_key = 1 /\ pfIn.items[j].issue_key = 1

\* C30: a run whose similarity search meets a failing store query is not failed
\* by it: the search returns no matches and the run goes on past the similarity
\* join to the fallback decision.
C30_SearchFailureIsNoMatches ==
    (dbFault = "search" /\ QueryEmbedded /\ futSim.state = "done")
        => /\ futSim.ok
           /\ swSimilar = <<>>
           /\ swPc # "failed"

====
